---- MODULE Spec2Model ----
(***************************************************************************)
(* Model of the hierarchical workflow executor of agency_swarm/agency:     *)
(* Agency.task_planning (request -> tasks -> subtasks -> steps),           *)
(* Agency.task_planning_rag (request -> tasks, bounded in-place retry),    *)
(* the dependency scheduler Agency.code_scheduling_layer, the persisted    *)
(* execution tree (context_tree.json) and the error log (error.json).      *)
(*                                                                         *)
(* The specifications share the variables:                                 *)
(*   SpecSched  code_scheduling_layer applied to enumerated inputs         *)
(*   Spec       task_planning with DEBUG_CODE_SCHEDULING = true            *)
(*   SpecRag    task_planning_rag with DEBUG_CODE_SCHEDULING = true        *)
(*   SpecJgc    one call of json_get_completion, every inspector setting   *)
(*   SpecFlows  either of task_planning and task_planning_rag              *)
(*   SpecAgentSched  task_planning scheduled by the scheduler agents       *)
(*   SpecRestart     task_planning and a restart of the program            *)
(*   SpecStorage     either flow on storage whose accesses may fail        *)
(*   SpecFiles       the document operations applied to files on disk      *)
(*   SpecNoFault     either flow, fair, with collaborators that never fail *)
(*   SpecCapability  one execution of a step on every list of agent replies*)
(***************************************************************************)
EXTENDS Integers, Sequences, FiniteSets, TLC

(***************************************************************************)
(* Bounds of the model.                                                    *)
(***************************************************************************)
\* nodes of a graph handed to code_scheduling_layer in SpecSched
MaxNodes == 3
\* steps of one planned step graph in Spec
MaxSteps == 2
\* failed capability executions in one run of Spec (they cap error_id)
MaxFails == 2
\* tasks of one planned task graph in SpecRag
MaxRagTasks == 2
\* failed capability executions in one run of SpecRag (they cap error_id)
MaxRagFails == 6
\* thread.get_completion calls within one json_get_completion call after
\* which the inspector no longer rejects
MaxThreadCalls == 5
\* failed capability executions in one run of SpecAgentSched
MaxAgentSchedFails == 1
\* capability agents named by the 'agent' list of one unit in SpecCapability
MaxAgents == 2

(***************************************************************************)
(* Values.                                                                 *)
(***************************************************************************)
\* Python's None (an argument left at its default)
None == "None"
\* the ids a planner hands out, in the order it hands them out
IdPool == <<"1", "2", "3", "4">>
\* an id that is a key of no graph
GhostId == "ghost"
\* request_id of the request being processed (main: str(int("0") + 1))
RequestId == "1"
\* the request text
RequestText == "request"
\* no action argument / no result yet
NoAction == [result |-> None, context |-> None]
\* the context of a FAIL response, and str(e) of a raised exception
FailContext == "fail context"
ExcText == "exception text"
\* str(e) of the OSError of a failed read or write of a document
StorageErrorText == "storage error"
\* the description an optimizer writes into a task
OptimizedDesc == "optimized"
PlannedDesc == "planned"

ToSet(seq) == {seq[k] : k \in DOMAIN seq}

Min(S) == CHOOSE x \in S : \A y \in S : x <= y

\* next((x for x in seq if x["id"] == id), None): index of the first match, 0 for None
Find(seq, id) ==
  LET S == {k \in DOMAIN seq : seq[k].id = id}
  IN IF S = {} THEN 0 ELSE Min(S)

(***************************************************************************)
(* Graphs: a planner's JSON object, key order kept (a Python dict), each   *)
(* value {id, title, description, dep}.  The key of a node is its id.      *)
(***************************************************************************)
Node(id, dep) == [id |-> id, title |-> id, description |-> PlannedDesc, dep |-> dep]

GraphKeys(graph) == {graph[k].id : k \in DOMAIN graph}

NodeOf(graph, id) == graph[Find(graph, id)]

(***************************************************************************)
(* code_scheduling_layer                                                   *)
(***************************************************************************)
\* all(dep_id in completed_id_set for dep_id in deps)
AllDepsMet(info, completed_id_set) ==
  \A dep_id \in info.dep : dep_id \in completed_id_set

\* the body of the loop over graph.items(): is id_key appended to next_ids
IsScheduled_KeepCompleted(info, completed_id_set) ==
  AllDepsMet(info, completed_id_set)

IsScheduled(info, completed_id_set) ==
  /\ info.id \notin completed_id_set
  /\ AllDepsMet(info, completed_id_set)

\* The result is [raised, next_ids]: the f-string that prints the completed
\* titles evaluates graph[id]['title'] for every id of completed_ids and
\* raises KeyError when one of them is not a key of the graph.
code_scheduling_layer(graph, completed_ids) ==
  LET completed_id_set == ToSet(completed_ids)
      Test(info) == IsScheduled(info, completed_id_set)
      ready == SelectSeq(graph, Test)
  IN IF completed_id_set \subseteq GraphKeys(graph)
     THEN [raised |-> FALSE, next_ids |-> [k \in DOMAIN ready |-> ready[k].id]]
     ELSE [raised |-> TRUE, next_ids |-> <<>>]

(***************************************************************************)
(* The execution tree document (context_tree.json): request_id ->          *)
(* {content, status, tasks: [{id, status, title, description,              *)
(*   subtasks: [{id, status, title, description,                           *)
(*     steps: [{id, status, title, description, actions}]}],               *)
(*   rag_actions}]}                                                        *)
(***************************************************************************)
EmptyDoc == [r \in {} |-> None]

\* the keyword arguments of update_context_tree / clear_context_tree_node
Args == [request_id |-> RequestId, task_id |-> None, subtask_id |-> None,
         step_id |-> None, status |-> None, title |-> None,
         description |-> None, action |-> NoAction, rag_action |-> NoAction]

\* init_context_tree: the document is read (an empty file reads as {}),
\* the root of the request is set, the document is written
init_context_tree(doc, request_id, content) ==
  [r \in DOMAIN doc \cup {request_id} |->
     IF r = request_id
     THEN [content |-> content, status |-> "executing", tasks |-> <<>>]
     ELSE doc[r]]

UpdateStep_KeepStatus(step, a) ==
  IF a.action # NoAction
  THEN [step EXCEPT !.actions = Append(@, a.action)]
  ELSE step

\* update_context_tree, step found: append the action or set the status
UpdateStep(step, a) ==
  IF a.action # NoAction
  THEN [step EXCEPT !.actions = Append(@, a.action)]
  ELSE [step EXCEPT !.status = a.status]

\* update_context_tree, subtask found
UpdateSubtask(subtask, a) ==
  IF a.step_id # None
  THEN LET k == Find(subtask.steps, a.step_id)
       IN IF k # 0
          THEN [subtask EXCEPT !.steps[k] = UpdateStep(@, a)]
          ELSE [subtask EXCEPT !.steps =
                  Append(@, [id |-> a.step_id, status |-> a.status,
                             title |-> a.title, description |-> a.description,
                             actions |-> <<>>])]
  ELSE [subtask EXCEPT !.status = a.status]

UpdateTask_ReplaceLog(task, a) ==
  IF a.rag_action # NoAction
  THEN [task EXCEPT !.rag_actions = <<a.rag_action>>]
  ELSE task

\* update_context_tree, task found
UpdateTask(task, a) ==
  IF a.rag_action # NoAction
  THEN [task EXCEPT !.rag_actions = Append(@, a.rag_action)]
  ELSE IF a.subtask_id # None
       THEN LET k == Find(task.subtasks, a.subtask_id)
            IN IF k # 0
               THEN [task EXCEPT !.subtasks[k] = UpdateSubtask(@, a)]
               ELSE [task EXCEPT !.subtasks =
                       Append(@, [id |-> a.subtask_id, status |-> a.status,
                                  title |-> a.title,
                                  description |-> a.description,
                                  steps |-> <<>>])]
       ELSE [task EXCEPT !.status = a.status,
                         !.description =
                            IF a.description # None THEN a.description ELSE @]

UpdateRequest_Append(request, a) ==
  IF a.task_id # None
  THEN [request EXCEPT !.tasks =
          Append(@, [id |-> a.task_id, status |-> a.status,
                     title |-> a.title, description |-> a.description,
                     subtasks |-> <<>>, rag_actions |-> <<>>])]
  ELSE [request EXCEPT !.status = a.status]

\* update_context_tree, request found
UpdateRequest(request, a) ==
  IF a.task_id # None
  THEN LET k == Find(request.tasks, a.task_id)
       IN IF k # 0
          THEN [request EXCEPT !.tasks[k] = UpdateTask(@, a)]
          ELSE [request EXCEPT !.tasks =
                  Append(@, [id |-> a.task_id, status |-> a.status,
                             title |-> a.title, description |-> a.description,
                             subtasks |-> <<>>, rag_actions |-> <<>>])]
  ELSE [request EXCEPT !.status = a.status]

\* update_context_tree: [raised, doc]; raises when the request is not in the
\* document, and then nothing is written
update_context_tree(doc, a) ==
  IF a.request_id \notin DOMAIN doc
  THEN [raised |-> TRUE, doc |-> doc]
  ELSE [raised |-> FALSE,
        doc |-> [doc EXCEPT ![a.request_id] = UpdateRequest(@, a)]]

\* clear_context_tree_node: does the addressed node exist
ClearFound(doc, a) ==
  /\ a.request_id \in DOMAIN doc
  /\ a.task_id # None =>
       LET tk == Find(doc[a.request_id].tasks, a.task_id)
       IN /\ tk # 0
          /\ a.subtask_id # None =>
               LET sk == Find(doc[a.request_id].tasks[tk].subtasks, a.subtask_id)
               IN /\ sk # 0
                  /\ a.step_id # None =>
                       Find(doc[a.request_id].tasks[tk].subtasks[sk].steps,
                            a.step_id) # 0

ClearSubtask_OnlyStep(subtask, a) ==
  IF a.step_id # None
  THEN [subtask EXCEPT !.steps[Find(subtask.steps, a.step_id)].actions = <<>>]
  ELSE subtask

\* clear_context_tree_node on a subtask that was found
ClearSubtask(subtask, a) ==
  IF a.step_id # None
  THEN [subtask EXCEPT !.steps[Find(subtask.steps, a.step_id)].actions = <<>>]
  ELSE [subtask EXCEPT !.steps = <<>>]

ClearTask_Keep(task, a) == task

\* clear_context_tree_node on a task that was found
ClearTask(task, a) ==
  IF a.subtask_id # None
  THEN [task EXCEPT !.subtasks[Find(task.subtasks, a.subtask_id)] =
                       ClearSubtask(@, a)]
  ELSE [task EXCEPT !.subtasks = <<>>]

ClearRequest_AllTasks(request, a) == [request EXCEPT !.tasks = <<>>]

\* clear_context_tree_node on the request
ClearRequest(request, a) ==
  IF a.task_id # None
  THEN [request EXCEPT !.tasks[Find(request.tasks, a.task_id)] = ClearTask(@, a)]
  ELSE [request EXCEPT !.tasks = <<>>]

clear_context_tree_node_Keep(doc, a) == [raised |-> FALSE, doc |-> doc]

\* clear_context_tree_node: [raised, doc]; raises on a node that is not
\* there, and then nothing is written
clear_context_tree_node(doc, a) ==
  IF ~ClearFound(doc, a)
  THEN [raised |-> TRUE, doc |-> doc]
  ELSE [raised |-> FALSE,
        doc |-> [doc EXCEPT ![a.request_id] = ClearRequest(@, a)]]

\* for key in graph.keys(): update_context_tree(..., status="pending", ...)
RECURSIVE RegisterAll(_, _, _, _)
RegisterAll(doc, graph, base, field) ==
  IF graph = <<>> THEN doc
  ELSE LET n == Head(graph)
           a == [base EXCEPT ![field] = n.id, !.status = "pending",
                             !.title = n.title, !.description = n.description]
       IN RegisterAll(update_context_tree(doc, a).doc, Tail(graph), base, field)

(***************************************************************************)
(* The error log document (error.json): error_id -> {error_id, step, error}*)
(***************************************************************************)
EmptyLog == [k \in {} |-> None]

update_error_Replace(log, id, error, step) ==
  [k \in {id} |-> [error_id |-> id, step |-> step, error |-> error]]

\* update_error: read (absent, empty or malformed reads as {}), set
\* data[error_id], write
update_error(log, id, error, step) ==
  [k \in DOMAIN log \cup {id} |->
     IF k = id THEN [error_id |-> id, step |-> step, error |-> error]
     ELSE log[k]]

(***************************************************************************)
(* Inputs: the graphs a planner may reply with.                            *)
(***************************************************************************)
NodeIds(n) == {IdPool[k] : k \in 1..n}

\* n independent nodes
Indep(n) == [k \in 1..n |-> Node(IdPool[k], {})]
\* each node depends on the one before it
Chain(n) == [k \in 1..n |-> Node(IdPool[k], IF k = 1 THEN {} ELSE {IdPool[k - 1]})]
\* independent nodes, the last one depending on itself
SelfLast(n) == [k \in 1..n |-> Node(IdPool[k], IF k = n THEN {IdPool[n]} ELSE {})]
\* independent nodes, the last one depending on an id that is no key
GhostLast(n) == [k \in 1..n |-> Node(IdPool[k], IF k = n THEN {GhostId} ELSE {})]
\* the replies of a planner with n nodes: {} (also what json_get_completion
\* substitutes), independent nodes, a chain, and a node held back by a cycle
PlannedGraphs(n) == {<<>>, Indep(n), Chain(n), SelfLast(n)}

\* every graph with keys IdPool[1..k], k <= n, and 'dep' lists of up to two
\* ids or the ghost id: the inputs of code_scheduling_layer in SpecSched
AllGraphs(n) ==
  UNION {{g \in [1..k -> {Node(id, dep) : id \in NodeIds(n),
                                          dep \in {d \in SUBSET (NodeIds(n) \cup {GhostId}) :
                                                     Cardinality(d) <= 2}}] :
            \A i \in 1..k : g[i].id = IdPool[i]} : k \in 0..n}

\* the completed-id lists of a call: keys of the graph, listed here in the
\* order of the keys (the function turns the list into a set before it reads
\* it), and after them possibly an id that is no key of the graph
CompletedLists(graph) ==
  {[k \in DOMAIN c |-> c[k].id] \o tail :
     c \in {SelectSeq(graph, LAMBDA info : info.id \in S) : S \in SUBSET GraphKeys(graph)},
     tail \in {<<>>, <<GhostId>>}}

(***************************************************************************)
(* State.                                                                  *)
(***************************************************************************)
VARIABLES
  flow,                  \* "sched" | "planning" | "rag" | "jgc" | "files": what runs
  code_scheduling,       \* DEBUG_CODE_SCHEDULING is "true"
  storage_fails,         \* the environment: reads and writes of the documents may fail
  faults,                \* the environment: collaborators may fail (FAIL, exceptions, bad plans)
  cap_replies,           \* what json_get_completion gave for each agent of the unit at work
  pc,                    \* position in the entry point
  context_tree,          \* content of context_tree.json
  error_log,             \* content of error.json
  error_id,
  original_request_error_flag,
  original_request_error_message,
  plan_original_request_num,
  task_graph_json, completed_task_ids, next_task_list, task_i,
  task_error_flag, task_error_message, task_error_num, last_error,
  subtask_graph_json, completed_subtask_ids, next_subtask_list, subtask_i,
  subtask_error_flag, subtask_error_message,
  steps_graph_json, completed_step_ids, next_step_list, step_i,
  step_error_flag, step_error_message,
  action,                \* the last reply of a capability agent
  plan_call,             \* the arguments of the planning_layer call in progress
  count_flag_false,      \* json_get_completion: malformed replies so far
  planmessage,           \* what json_get_completion returned
  jgc_ret,               \* where json_get_completion returns to
  inspector_thread,      \* json_get_completion: is an inspector thread supplied
  inspector_type,        \* os.getenv("DEBUG_INSPECTOR_TYPE")
  message,               \* json_get_completion: what the thread is sent next
  thread_calls,          \* json_get_completion: thread.get_completion calls so far
  result,                \* json_get_completion: the JSON found in the last reply
  review,                \* the last value given to the inspector and the verdict
  other_input,           \* task_planning_rag: what the user told rag_flow so far
  planner_sent,          \* per planner thread: the inputs of the last planning_layer call it served
  sched_graph, sched_completed, sched_result,  \* SpecSched: inputs and result
  tree_file,             \* SpecFiles: context_tree.json on disk
  error_file,            \* SpecFiles: error.json on disk
  file_result            \* SpecFiles: the last operation, its arguments, the file before it, what it raised

docVars == <<context_tree, error_log, error_id>>
reqVars == <<original_request_error_flag, original_request_error_message,
             plan_original_request_num>>
taskVars == <<task_graph_json, completed_task_ids, next_task_list, task_i,
              task_error_flag, task_error_message, task_error_num, last_error>>
subtaskVars == <<subtask_graph_json, completed_subtask_ids, next_subtask_list,
                 subtask_i, subtask_error_flag, subtask_error_message>>
stepVars == <<steps_graph_json, completed_step_ids, next_step_list, step_i,
              step_error_flag, step_error_message, action>>
callVars == <<plan_call, count_flag_false, planmessage, jgc_ret,
              inspector_thread, inspector_type, message, thread_calls, result,
              review>>
schedVars == <<sched_graph, sched_completed, sched_result>>
planVars == <<other_input, planner_sent>>
fileVars == <<tree_file, error_file, file_result>>

vars == <<flow, code_scheduling, storage_fails, faults, cap_replies, pc, docVars, reqVars, taskVars, subtaskVars,
          stepVars, callVars, schedVars, planVars, fileVars>>

NoCall == [planner |-> None, overall_id |-> None, error_message |-> None]

\* what a planning_layer call gives the planner apart from the error text
Inputs(call) ==
  [overall_id |-> call.overall_id, message |-> call.message,
   original_request |-> call.original_request]
NoInputs == [overall_id |-> None]
\* the planner threads: task_planner, subtask_planner, the planners of the
\* capability groups, task_planner_rag
Planners == {"task", "subtask", "step", "task_rag"}

\* no value was given to the inspector
NoReview == [reviewed |-> FALSE, task_graph |-> <<>>, approved |-> FALSE]

\* the locals of json_get_completion outside a call
NoInspectorResult == [json |-> FALSE, review |-> None, has_yes |-> FALSE]

NoMessage == [kind |-> None, feedback |-> NoInspectorResult]

NoJgcLocals ==
  /\ count_flag_false = 0
  /\ message = NoMessage
  /\ thread_calls = 0
  /\ result = <<>>

\* the locals of the entry points before their first assignment
\* a file on disk: absent, empty, not well-formed JSON, or a JSON document
AbsentFile == [kind |-> "absent", data |-> EmptyDoc]
EmptyFile == [kind |-> "empty", data |-> EmptyDoc]
MalformedFile == [kind |-> "malformed", data |-> EmptyDoc]
JsonFile(data) == [kind |-> "json", data |-> data]

NoFileCall == [op |-> None, args |-> None, before |-> AbsentFile, raised |-> None]

InitLocals ==
  /\ context_tree = EmptyDoc
  /\ error_log = EmptyLog
  /\ error_id = 0
  /\ original_request_error_flag = FALSE
  /\ original_request_error_message = ""
  /\ plan_original_request_num = 0
  /\ task_graph_json = <<>> /\ completed_task_ids = <<>>
  /\ next_task_list = <<>> /\ task_i = 0
  /\ task_error_flag = FALSE /\ task_error_message = ""
  /\ task_error_num = 0 /\ last_error = ""
  /\ subtask_graph_json = <<>> /\ completed_subtask_ids = <<>>
  /\ next_subtask_list = <<>> /\ subtask_i = 0
  /\ subtask_error_flag = FALSE /\ subtask_error_message = ""
  /\ steps_graph_json = <<>> /\ completed_step_ids = <<>>
  /\ next_step_list = <<>> /\ step_i = 0
  /\ step_error_flag = FALSE /\ step_error_message = ""
  /\ action = NoAction
  /\ plan_call = NoCall
  /\ NoJgcLocals
  /\ planmessage = <<>>
  /\ jgc_ret = None
  /\ review = NoReview
  /\ other_input = <<>>
  /\ planner_sent = [p \in Planners |-> NoInputs]

(***************************************************************************)
(* SpecSched: code_scheduling_layer on every input.                        *)
(***************************************************************************)
InitSched ==
  /\ flow = "sched"
  /\ code_scheduling = TRUE
  /\ storage_fails = FALSE
  /\ faults = TRUE
  /\ cap_replies = <<>>
  /\ pc = "sched_call"
  /\ InitLocals
  /\ tree_file = AbsentFile /\ error_file = AbsentFile
  /\ file_result = NoFileCall
  /\ inspector_type = "off"
  /\ inspector_thread = FALSE
  /\ sched_graph \in AllGraphs(MaxNodes)
  /\ sched_completed \in CompletedLists(sched_graph)
  /\ sched_result = [raised |-> FALSE, next_ids |-> <<>>]

SchedCall ==
  /\ flow = "sched"
  /\ pc = "sched_call"
  /\ sched_result' = code_scheduling_layer(sched_graph, sched_completed)
  /\ pc' = "sched_done"
  /\ UNCHANGED <<flow, code_scheduling, storage_fails, faults, cap_replies, fileVars, planVars, docVars, reqVars, taskVars, subtaskVars, stepVars,
                 callVars, sched_graph, sched_completed>>

NextSched == SchedCall

SpecSched == InitSched /\ [][NextSched]_vars

(***************************************************************************)
(* planning_layer and json_get_completion.  task_planning and              *)
(* task_planning_rag are run with DEBUG_INSPECTOR_TYPE = off (a well-formed*)
(* reply is returned as it is); SpecJgc runs json_get_completion under     *)
(* every setting.                                                          *)
(***************************************************************************)
\* if count_flag_false <= 3: continue
FormatRetries == 3

\* the graphs the planner of a level may reply with
TaskGraphs == {<<>>, Indep(2), SelfLast(2), GhostLast(2)}
SubtaskGraphs == {<<>>, Indep(2), SelfLast(2)}
StepGraphs == PlannedGraphs(MaxSteps)
RagTaskGraphs == PlannedGraphs(MaxRagTasks)

RepliesOf(planner) ==
  CASE planner = "task" -> TaskGraphs
    [] planner = "subtask" -> SubtaskGraphs
    [] planner = "step" -> StepGraphs
    [] OTHER -> RagTaskGraphs

\* the ids that can complete: those reached from nodes without 'dep'
RECURSIVE Resolvable(_, _)
Resolvable(graph, done) ==
  LET more == {id \in GraphKeys(graph) \ done : NodeOf(graph, id).dep \subseteq done}
  IN IF more = {} THEN done ELSE Resolvable(graph, done \cup more)

\* there are nodes on a cycle of 'dep' or behind one
Cyclic(graph) == Resolvable(graph, {}) # GraphKeys(graph)

\* the replies of a planner in the environment at hand: without faults only
\* the graphs whose 'dep' ids are keys and lie on no cycle
PlannerReplies(planner) ==
  IF faults THEN RepliesOf(planner)
  ELSE {g \in RepliesOf(planner) : ~Cyclic(g)}

\* what the thread is sent: the message of the caller, the message with
\* "Your output format is wrong.", the message with the inspector's result
OriginalMessage == [kind |-> "original", feedback |-> NoInspectorResult]
FormatFeedback == [kind |-> "format", feedback |-> NoInspectorResult]
ReviewFeedback(inspector_result) == [kind |-> "review", feedback |-> inspector_result]

\* json_get_completion up to its loop
JgcEnter ==
  /\ count_flag_false' = 0
  /\ message' = OriginalMessage
  /\ thread_calls' = 0
  /\ result' = <<>>
  /\ review' = NoReview

\* planning_layer up to its call of json_get_completion, which is given the
\* inspector thread of the level
PlanningCall(planner, overall_id, plan_message, original_request, error_message, ret) ==
  /\ plan_call' = [planner |-> planner, overall_id |-> overall_id,
                   message |-> plan_message, original_request |-> original_request,
                   error_message |-> error_message]
  /\ inspector_thread' = TRUE
  /\ JgcEnter
  /\ jgc_ret' = ret
  /\ pc' = "jgc"
  /\ UNCHANGED <<planmessage, inspector_type>>

\* json_get_completion and planning_layer return: their locals are gone
JgcReturn(value) ==
  /\ planmessage' = value
  /\ pc' = jgc_ret
  /\ plan_call' = NoCall
  /\ count_flag_false' = 0
  /\ message' = NoMessage
  /\ thread_calls' = 0
  /\ result' = <<>>
  /\ jgc_ret' = None
  /\ planner_sent' = [planner_sent EXCEPT ![plan_call.planner] = Inputs(plan_call)]
  /\ UNCHANGED <<inspector_thread, inspector_type>>

\* the thread's reply holds no JSON: count it, ask again with the format
\* feedback while count_flag_false <= 3
JgcMalformed ==
  /\ pc = "jgc"
  /\ faults
  /\ thread_calls' = thread_calls + 1
  /\ count_flag_false' = count_flag_false + 1
  /\ message' = FormatFeedback
  /\ pc' = IF count_flag_false + 1 <= FormatRetries THEN "jgc" ELSE "jgc_abandon"
  /\ UNCHANGED <<flow, code_scheduling, storage_fails, faults, cap_replies, fileVars, planVars, docVars, reqVars, taskVars, subtaskVars, stepVars,
                 schedVars, plan_call, planmessage, jgc_ret, inspector_thread,
                 inspector_type, result, review>>

\* else: return json.dumps({})
JgcAbandon ==
  /\ pc = "jgc_abandon"
  /\ JgcReturn(<<>>)
  /\ UNCHANGED <<flow, code_scheduling, storage_fails, faults, cap_replies, fileVars, other_input, docVars, reqVars, taskVars, subtaskVars, stepVars,
                 schedVars, review>>

\* the thread's reply holds a JSON object: it is returned when there is no
\* inspector or the inspector is off, and given to the inspector otherwise
JgcReply ==
  /\ pc = "jgc"
  /\ \E g \in PlannerReplies(plan_call.planner) :
       IF ~inspector_thread \/ inspector_type = "off"
       THEN JgcReturn(g) /\ UNCHANGED review
       ELSE /\ thread_calls' = thread_calls + 1
            /\ result' = g
            /\ pc' = "jgc_inspect"
            /\ UNCHANGED <<plan_call, count_flag_false, planmessage, jgc_ret,
                           inspector_thread, inspector_type, message, review,
                           planner_sent>>
  /\ UNCHANGED <<flow, code_scheduling, storage_fails, faults, cap_replies, fileVars, other_input, docVars, reqVars, taskVars, subtaskVars, stepVars,
                 schedVars>>

\* the inspector's reply: a JSON object with or without a 'review', or text
\* that is no JSON; has_yes: the reply holds the characters YES
InspectorReplies ==
  {[json |-> TRUE, review |-> "YES", has_yes |-> TRUE],
   [json |-> TRUE, review |-> "NO", has_yes |-> FALSE],
   [json |-> TRUE, review |-> "NO", has_yes |-> TRUE],
   [json |-> FALSE, review |-> None, has_yes |-> TRUE],
   [json |-> FALSE, review |-> None, has_yes |-> FALSE]}

\* input(): the user agrees with the inspector or gives a review
UserAdvice == {"agree", "YES", "NO"}

\* the values of DEBUG_INSPECTOR_TYPE: unset, off, user, any other
InspectorTypes == {None, "off", "user", "auto"}

\* get_inspector_review: json_res["review"] == "YES", or on any exception
\* whether the text holds YES
get_inspector_review(inspector_result) ==
  IF inspector_result.json /\ inspector_result.review # None
  THEN inspector_result.review = "YES"
  ELSE inspector_result.has_yes

\* the inspector is asked, with the user where the type is unset or user;
\* an approved value is returned, a rejected one goes back to the thread
JgcInspect ==
  /\ pc = "jgc_inspect"
  /\ \E reply \in InspectorReplies, user_advice \in UserAdvice :
       LET inspector_result ==
             IF inspector_type \in {None, "user"} /\ user_advice # "agree"
             THEN [json |-> TRUE, review |-> user_advice,
                   has_yes |-> user_advice = "YES"]
             ELSE reply
           approved == get_inspector_review(inspector_result)
       IN /\ review' = [reviewed |-> TRUE, task_graph |-> result,
                        approved |-> approved]
          /\ IF approved
             THEN JgcReturn(result)
             ELSE /\ thread_calls < MaxThreadCalls
                  /\ message' = ReviewFeedback(inspector_result)
                  /\ pc' = "jgc"
                  /\ UNCHANGED <<plan_call, count_flag_false, planmessage,
                                 jgc_ret, inspector_thread, inspector_type,
                                 thread_calls, result, planner_sent>>
  /\ UNCHANGED <<flow, code_scheduling, storage_fails, faults, cap_replies, fileVars, other_input, docVars, reqVars, taskVars, subtaskVars, stepVars,
                 schedVars>>

\* SpecJgc: one call of json_get_completion by planning_layer, under every
\* setting of the inspector
InitJgc ==
  /\ flow = "jgc"
  /\ code_scheduling = TRUE
  /\ storage_fails = FALSE
  /\ faults = TRUE
  /\ cap_replies = <<>>
  /\ pc = "jgc_call"
  /\ InitLocals
  /\ tree_file = AbsentFile /\ error_file = AbsentFile
  /\ file_result = NoFileCall
  /\ inspector_type \in InspectorTypes
  /\ inspector_thread \in BOOLEAN
  /\ sched_graph = <<>> /\ sched_completed = <<>>
  /\ sched_result = [raised |-> FALSE, next_ids |-> <<>>]

JgcCall ==
  /\ flow = "jgc"
  /\ pc = "jgc_call"
  /\ plan_call' = [planner |-> "step", overall_id |-> IdPool[1],
                   message |-> <<RequestText>>, original_request |-> RequestText,
                   error_message |-> ""]
  /\ JgcEnter
  /\ jgc_ret' = "jgc_done"
  /\ pc' = "jgc"
  /\ UNCHANGED <<flow, code_scheduling, storage_fails, faults, cap_replies, fileVars, planVars, docVars, reqVars, taskVars, subtaskVars, stepVars,
                 schedVars, planmessage, inspector_thread, inspector_type>>

NextJgc == JgcCall \/ JgcMalformed \/ JgcAbandon \/ JgcReply \/ JgcInspect

SpecJgc == InitJgc /\ [][NextJgc]_vars

(***************************************************************************)
(* task_planning                                                           *)
(***************************************************************************)
next_task_id == next_task_list[task_i]
next_task == NodeOf(task_graph_json, next_task_id)
next_subtask_id == next_subtask_list[subtask_i]
next_subtask == NodeOf(subtask_graph_json, next_subtask_id)
next_step_id == next_step_list[step_i]
next_step == NodeOf(steps_graph_json, next_step_id)

\* what the subtask planner and the step planner are sent: title and
\* description of the task, of the subtask
subtask_input_ErrorForDescription ==
  <<next_task.title,
    IF task_error_message = "" THEN next_task.description ELSE task_error_message>>

subtask_input == <<next_task.title, next_task.description>>

steps_input == <<next_subtask.title, next_subtask.description>>

TaskArgs == [Args EXCEPT !.task_id = next_task_id]
SubtaskArgs == [TaskArgs EXCEPT !.subtask_id = next_subtask_id]
StepArgs == [SubtaskArgs EXCEPT !.step_id = next_step_id]

\* what json_get_completion gives capability_agents_processor for one
\* agent: it raises, or it returns the text of a JSON object, whose keys
\* 'result' and 'context' may be missing (None); after four replies without
\* JSON it returns the text of {}
AgentReply(raises, res, ctx) ==
  [raises |-> raises, result |-> res, context |-> ctx]

SuccessReply == AgentReply(FALSE, "SUCCESS", "done")

AgentReplies ==
  {SuccessReply,
   AgentReply(FALSE, "FAIL", FailContext),
   AgentReply(FALSE, "PARTIAL", "done"),
   AgentReply(FALSE, None, "done"),
   AgentReply(FALSE, "SUCCESS", None),
   AgentReply(FALSE, None, None),
   AgentReply(TRUE, None, None)}

\* the replies to one execution of a unit: one for each name of its 'agent'
\* list, which the planner may leave empty
CapabilityReplies == UNION {[1..n -> AgentReplies] : n \in 0..MaxAgents}

\* capability_agents_processor: every agent of the list is asked in turn and
\* its reply parsed into cap_agent_result_json; after the loop 'result' and
\* 'context' of cap_agent_result_json, the reply of the last agent, are read
\* and the object is returned
capability_agents_processor(replies) ==
  IF \E k \in DOMAIN replies : replies[k].raises
  THEN [raised |-> TRUE, value |-> NoAction]
  ELSE IF replies = <<>>
  THEN [raised |-> TRUE, value |-> NoAction]
  ELSE LET cap_agent_result_json == replies[Len(replies)]
       IN IF cap_agent_result_json.result = None
             \/ cap_agent_result_json.context = None
          THEN [raised |-> TRUE, value |-> NoAction]
          ELSE [raised |-> FALSE,
                value |-> [result |-> cap_agent_result_json.result,
                           context |-> cap_agent_result_json.context]]

\* the try block around the call: an exception of the call and the failed
\* assert of an unknown result go to `except Exception`
TryOutcome(replies) ==
  LET r == capability_agents_processor(replies)
  IN IF r.raised THEN "EXC"
     ELSE IF r.value.result \notin {"SUCCESS", "FAIL"} THEN "EXC"
     ELSE r.value.result

\* the replies of a capability agent as the caller's try block sees them:
\* result SUCCESS, result FAIL with a context, or an exception (a reply that
\* is no JSON after the retries, a missing key, an unknown result); STORE:
\* the reply is SUCCESS and update_context_tree, called in the try block,
\* cannot read or write context_tree.json
Outcomes ==
  IF faults /\ error_id < (IF code_scheduling THEN MaxFails ELSE MaxAgentSchedFails)
  THEN {TryOutcome(replies) : replies \in CapabilityReplies}
         \cup (IF storage_fails THEN {"STORE"} ELSE {})
  ELSE {TryOutcome(<<SuccessReply>>)}

Reply_NoContext(outcome) == [result |-> outcome, context |-> "done"]

Reply(outcome) ==
  [result |-> outcome,
   context |-> IF outcome = "FAIL" THEN FailContext ELSE "done"]

\* what a scheduler agent may reply to scheduling_layer as its next_* list:
\* the ids the dependencies allow, or the ids that are not completed in the
\* reverse order of the keys, whatever their 'dep' says
SchedulerReplies(graph, completed_ids) ==
  LET completed_id_set == ToSet(completed_ids)
      ready == SelectSeq(graph, LAMBDA info : IsScheduled(info, completed_id_set))
      pending == SelectSeq(graph, LAMBDA info : info.id \notin completed_id_set)
      n == Len(pending)
  IN {[k \in DOMAIN ready |-> ready[k].id],
      [k \in 1..n |-> pending[n + 1 - k].id]}

\* the scheduling step of a level: code_scheduling_layer if code_scheduling,
\* else scheduling_layer and the next_* entry of its JSON reply
scheduling(graph, completed_ids) ==
  IF code_scheduling
  THEN {code_scheduling_layer(graph, completed_ids)}
  ELSE {[raised |-> FALSE, next_ids |-> l] : l \in SchedulerReplies(graph, completed_ids)}

InitPlanning ==
  /\ flow = "planning"
  /\ code_scheduling = TRUE
  /\ storage_fails = FALSE
  /\ faults = TRUE
  /\ cap_replies = <<>>
  /\ pc = "start"
  /\ InitLocals
  /\ tree_file = AbsentFile /\ error_file = AbsentFile
  /\ file_result = NoFileCall
  /\ inspector_type = "off"
  /\ inspector_thread = FALSE
  /\ sched_graph = <<>> /\ sched_completed = <<>>
  /\ sched_result = [raised |-> FALSE, next_ids |-> <<>>]

\* init_files, init_context_tree, the flags before the main loop
Start ==
  /\ flow = "planning"
  /\ pc = "start"
  /\ error_log' = EmptyLog
  /\ context_tree' = init_context_tree(context_tree, RequestId, RequestText)
  /\ original_request_error_flag' = FALSE
  /\ original_request_error_message' = ""
  /\ error_id' = 0
  /\ pc' = "plan_request"
  /\ UNCHANGED <<flow, code_scheduling, storage_fails, faults, cap_replies, fileVars, planVars, plan_original_request_num, taskVars, subtaskVars,
                 stepVars, callVars, schedVars>>

\* 1. the task planner is asked for the task graph of the request
PlanRequest ==
  /\ flow = "planning"
  /\ pc = "plan_request"
  /\ PlanningCall("task", "original request", <<RequestText>>, RequestText,
                  original_request_error_message, "reg_tasks")
  /\ UNCHANGED <<flow, code_scheduling, storage_fails, faults, cap_replies, fileVars, planVars, docVars, reqVars, taskVars, subtaskVars, stepVars,
                 schedVars>>

\* the error flag and the error file are reset, the tasks are registered
RegisterTasks ==
  /\ flow = "planning"
  /\ pc = "reg_tasks"
  /\ original_request_error_flag' = FALSE
  /\ error_log' = EmptyLog
  /\ task_graph_json' = planmessage
  /\ context_tree' = RegisterAll(context_tree, planmessage, Args, "task_id")
  /\ completed_task_ids' = <<>>
  /\ pc' = "sched_tasks"
  /\ UNCHANGED <<flow, code_scheduling, storage_fails, faults, cap_replies, fileVars, planVars, error_id, original_request_error_message,
                 plan_original_request_num, next_task_list, task_i,
                 task_error_flag, task_error_message, task_error_num,
                 last_error, subtaskVars, stepVars, callVars, schedVars>>

\* 2. the ready tasks; none ends the scheduling loop
ScheduleTasks ==
  /\ flow = "planning"
  /\ pc = "sched_tasks"
  /\ \E r \in scheduling(task_graph_json, completed_task_ids) :
        IF r.raised
        THEN pc' = "crashed" /\ UNCHANGED <<next_task_list, task_i>>
        ELSE /\ next_task_list' = r.next_ids
             /\ IF r.next_ids = <<>>
                THEN pc' = "request_end" /\ UNCHANGED task_i
                ELSE pc' = "task_for" /\ task_i' = 1
  /\ UNCHANGED <<flow, code_scheduling, storage_fails, faults, cap_replies, fileVars, planVars, docVars, reqVars, task_graph_json, completed_task_ids,
                 task_error_flag, task_error_message, task_error_num,
                 last_error, subtaskVars, stepVars, callVars, schedVars>>

\* for next_task_id in next_task_list: the task is marked executing
TaskBegin ==
  /\ flow = "planning"
  /\ pc = "task_for"
  /\ task_i <= Len(next_task_list)
  /\ task_error_flag' = FALSE
  /\ task_error_message' = ""
  /\ context_tree' =
       update_context_tree(context_tree,
         [TaskArgs EXCEPT !.status = "executing", !.title = next_task.title,
                          !.description = next_task.description]).doc
  /\ pc' = "plan_task"
  /\ UNCHANGED <<flow, code_scheduling, storage_fails, faults, cap_replies, fileVars, planVars, error_log, error_id, reqVars, task_graph_json,
                 completed_task_ids, next_task_list, task_i, task_error_num,
                 last_error, subtaskVars, stepVars, callVars, schedVars>>

\* the ready tasks are done: if original_request_error_flag: break
TaskLoopEnd ==
  /\ flow = "planning"
  /\ pc = "task_for"
  /\ task_i > Len(next_task_list)
  /\ pc' = IF original_request_error_flag THEN "request_end" ELSE "sched_tasks"
  /\ UNCHANGED <<flow, code_scheduling, storage_fails, faults, cap_replies, fileVars, planVars, docVars, reqVars, taskVars, subtaskVars, stepVars,
                 callVars, schedVars>>

\* 3. the subtask planner is asked for the subtask graph of the task
PlanTask ==
  /\ flow = "planning"
  /\ pc = "plan_task"
  /\ PlanningCall("subtask", next_task_id, subtask_input,
                  next_task.description, task_error_message, "reg_subtasks")
  /\ UNCHANGED <<flow, code_scheduling, storage_fails, faults, cap_replies, fileVars, planVars, docVars, reqVars, taskVars, subtaskVars, stepVars,
                 schedVars>>

RegisterSubtasks ==
  /\ flow = "planning"
  /\ pc = "reg_subtasks"
  /\ task_error_flag' = FALSE
  /\ subtask_graph_json' = planmessage
  /\ context_tree' = RegisterAll(context_tree, planmessage, TaskArgs, "subtask_id")
  /\ completed_subtask_ids' = <<>>
  /\ pc' = "sched_subtasks"
  /\ UNCHANGED <<flow, code_scheduling, storage_fails, faults, cap_replies, fileVars, planVars, error_log, error_id, reqVars, task_graph_json,
                 completed_task_ids, next_task_list, task_i,
                 task_error_message, task_error_num, last_error,
                 next_subtask_list, subtask_i, subtask_error_flag,
                 subtask_error_message, stepVars, callVars, schedVars>>

\* 4. the ready subtasks; none ends the scheduling loop
ScheduleSubtasks ==
  /\ flow = "planning"
  /\ pc = "sched_subtasks"
  /\ \E r \in scheduling(subtask_graph_json, completed_subtask_ids) :
        IF r.raised
        THEN pc' = "crashed" /\ UNCHANGED <<next_subtask_list, subtask_i>>
        ELSE /\ next_subtask_list' = r.next_ids
             /\ IF r.next_ids = <<>>
                THEN pc' = "task_end" /\ UNCHANGED subtask_i
                ELSE pc' = "subtask_for" /\ subtask_i' = 1
  /\ UNCHANGED <<flow, code_scheduling, storage_fails, faults, cap_replies, fileVars, planVars, docVars, reqVars, taskVars, subtask_graph_json,
                 completed_subtask_ids, subtask_error_flag,
                 subtask_error_message, stepVars, callVars, schedVars>>

SubtaskBegin ==
  /\ flow = "planning"
  /\ pc = "subtask_for"
  /\ subtask_i <= Len(next_subtask_list)
  /\ subtask_error_flag' = FALSE
  /\ subtask_error_message' = ""
  /\ context_tree' =
       update_context_tree(context_tree,
         [SubtaskArgs EXCEPT !.status = "executing",
                             !.title = next_subtask.title,
                             !.description = next_subtask.description]).doc
  /\ pc' = "plan_subtask"
  /\ UNCHANGED <<flow, code_scheduling, storage_fails, faults, cap_replies, fileVars, planVars, error_log, error_id, reqVars, taskVars,
                 subtask_graph_json, completed_subtask_ids, next_subtask_list,
                 subtask_i, stepVars, callVars, schedVars>>

\* the ready subtasks are done: if task_error_flag: break
SubtaskLoopEnd ==
  /\ flow = "planning"
  /\ pc = "subtask_for"
  /\ subtask_i > Len(next_subtask_list)
  /\ pc' = IF task_error_flag THEN "task_end" ELSE "sched_subtasks"
  /\ UNCHANGED <<flow, code_scheduling, storage_fails, faults, cap_replies, fileVars, planVars, docVars, reqVars, taskVars, subtaskVars, stepVars,
                 callVars, schedVars>>

\* 5. the planner of the capability group is asked for the steps
PlanSubtask ==
  /\ flow = "planning"
  /\ pc = "plan_subtask"
  /\ PlanningCall("step", next_subtask_id, steps_input,
                  next_subtask.description, subtask_error_message, "reg_steps")
  /\ UNCHANGED <<flow, code_scheduling, storage_fails, faults, cap_replies, fileVars, planVars, docVars, reqVars, taskVars, subtaskVars, stepVars,
                 schedVars>>

RegisterSteps ==
  /\ flow = "planning"
  /\ pc = "reg_steps"
  /\ subtask_error_flag' = FALSE
  /\ steps_graph_json' = planmessage
  /\ context_tree' = RegisterAll(context_tree, planmessage, SubtaskArgs, "step_id")
  /\ completed_step_ids' = <<>>
  /\ pc' = "sched_steps"
  /\ UNCHANGED <<flow, code_scheduling, storage_fails, faults, cap_replies, fileVars, planVars, error_log, error_id, reqVars, taskVars,
                 subtask_graph_json, completed_subtask_ids, next_subtask_list,
                 subtask_i, subtask_error_message, next_step_list, step_i,
                 step_error_flag, step_error_message, action, callVars,
                 schedVars>>

\* the ready steps; none ends the scheduling loop
ScheduleSteps ==
  /\ flow = "planning"
  /\ pc = "sched_steps"
  /\ \E r \in scheduling(steps_graph_json, completed_step_ids) :
        IF r.raised
        THEN pc' = "crashed" /\ UNCHANGED <<next_step_list, step_i>>
        ELSE /\ next_step_list' = r.next_ids
             /\ IF r.next_ids = <<>>
                THEN pc' = "subtask_end" /\ UNCHANGED step_i
                ELSE pc' = "step_for" /\ step_i' = 1
  /\ UNCHANGED <<flow, code_scheduling, storage_fails, faults, cap_replies, fileVars, planVars, docVars, reqVars, taskVars, subtaskVars,
                 steps_graph_json, completed_step_ids, step_error_flag,
                 step_error_message, action, callVars, schedVars>>

StepBegin ==
  /\ flow = "planning"
  /\ pc = "step_for"
  /\ step_i <= Len(next_step_list)
  /\ step_error_flag' = FALSE
  /\ step_error_message' = ""
  /\ context_tree' =
       update_context_tree(context_tree,
         [StepArgs EXCEPT !.status = "executing", !.title = next_step.title,
                          !.description = next_step.description]).doc
  /\ pc' = "exec_step"
  /\ UNCHANGED <<flow, code_scheduling, storage_fails, faults, cap_replies, fileVars, planVars, error_log, error_id, reqVars, taskVars, subtaskVars,
                 steps_graph_json, completed_step_ids, next_step_list, step_i,
                 action, callVars, schedVars>>

\* the ready steps are done: if subtask_error_flag: break
StepLoopEnd ==
  /\ flow = "planning"
  /\ pc = "step_for"
  /\ step_i > Len(next_step_list)
  /\ pc' = IF subtask_error_flag THEN "subtask_end" ELSE "sched_steps"
  /\ UNCHANGED <<flow, code_scheduling, storage_fails, faults, cap_replies, fileVars, planVars, docVars, reqVars, taskVars, subtaskVars, stepVars,
                 callVars, schedVars>>

\* 7. the capability agent executes the step: the try block and its except
StepTry(outcome) ==
  IF outcome = "EXC"
  THEN /\ error_id' = error_id + 1
       /\ step_error_flag' = TRUE
       /\ step_error_message' = ExcText
       /\ UNCHANGED <<action, context_tree, error_log>>
  ELSE IF outcome = "STORE"
  THEN /\ action' = Reply("SUCCESS")
       /\ error_id' = error_id + 1
       /\ step_error_flag' = TRUE
       /\ step_error_message' = StorageErrorText
       /\ UNCHANGED <<context_tree, error_log>>
  ELSE /\ action' = Reply(outcome)
       /\ context_tree' =
            update_context_tree(context_tree,
              [StepArgs EXCEPT !.action = Reply(outcome)]).doc
       /\ IF outcome = "FAIL"
          THEN /\ error_id' = error_id + 1
               /\ step_error_flag' = TRUE
               /\ step_error_message' = Reply(outcome).context
               /\ error_log' = update_error(error_log, error_id + 1,
                                            Reply(outcome), next_step)
          ELSE UNCHANGED <<error_id, step_error_flag, step_error_message,
                           error_log>>

ExecStep ==
  /\ flow = "planning"
  /\ pc = "exec_step"
  /\ \E outcome \in Outcomes : StepTry(outcome)
  /\ pc' = "step_outcome"
  /\ UNCHANGED <<flow, code_scheduling, storage_fails, faults, cap_replies, fileVars, planVars, reqVars, taskVars, subtaskVars, steps_graph_json,
                 completed_step_ids, next_step_list, step_i, callVars,
                 schedVars>>

\* after the try block: the step is complete, or it is cleared and the
\* failure leaves the step loops (break, if subtask_error_flag: break, twice)
StepFailedPc_NextStep == "step_for"

StepFailedPc == "subtask_end"

StepOutcome ==
  /\ flow = "planning"
  /\ pc = "step_outcome"
  /\ IF ~step_error_flag
     THEN /\ completed_step_ids' = Append(completed_step_ids, next_step_id)
          /\ context_tree' =
               update_context_tree(context_tree,
                 [StepArgs EXCEPT !.status = "completed"]).doc
          /\ step_i' = step_i + 1
          /\ pc' = "step_for"
          /\ UNCHANGED <<subtask_error_flag, subtask_error_message>>
     ELSE LET r == clear_context_tree_node(context_tree, StepArgs)
          IN IF r.raised
             THEN /\ pc' = "crashed"
                  /\ UNCHANGED <<context_tree, subtask_error_flag,
                                 subtask_error_message, completed_step_ids,
                                 step_i>>
             ELSE /\ context_tree' = r.doc
                  /\ subtask_error_flag' = TRUE
                  /\ subtask_error_message' = step_error_message
                  /\ pc' = StepFailedPc
                  /\ UNCHANGED <<completed_step_ids, step_i>>
  /\ UNCHANGED <<flow, code_scheduling, storage_fails, faults, cap_replies, fileVars, planVars, error_log, error_id, reqVars, taskVars,
                 subtask_graph_json, completed_subtask_ids, next_subtask_list,
                 subtask_i, steps_graph_json, next_step_list, step_error_flag,
                 step_error_message, action, callVars, schedVars>>

\* all steps of the subtask ended: the subtask is complete, or it is cleared
\* and the failure leaves the subtask loops (break, if task_error_flag: break)
SubtaskFailedPc_NextSubtask == "subtask_for"

SubtaskFailedPc == "task_end"

SubtaskEnd ==
  /\ flow = "planning"
  /\ pc = "subtask_end"
  /\ IF ~subtask_error_flag
     THEN /\ completed_subtask_ids' = Append(completed_subtask_ids, next_subtask_id)
          /\ context_tree' =
               update_context_tree(context_tree,
                 [SubtaskArgs EXCEPT !.status = "completed"]).doc
          /\ subtask_i' = subtask_i + 1
          /\ pc' = "subtask_for"
          /\ UNCHANGED <<task_error_flag, task_error_message>>
     ELSE LET r == clear_context_tree_node(context_tree, SubtaskArgs)
          IN IF r.raised
             THEN /\ pc' = "crashed"
                  /\ UNCHANGED <<context_tree, task_error_flag,
                                 task_error_message, completed_subtask_ids,
                                 subtask_i>>
             ELSE /\ context_tree' = r.doc
                  /\ task_error_flag' = TRUE
                  /\ task_error_message' = subtask_error_message
                  /\ pc' = SubtaskFailedPc
                  /\ UNCHANGED <<completed_subtask_ids, subtask_i>>
  /\ UNCHANGED <<flow, code_scheduling, storage_fails, faults, cap_replies, fileVars, planVars, error_log, error_id, reqVars, task_graph_json,
                 completed_task_ids, next_task_list, task_i, task_error_num,
                 last_error, subtask_graph_json, next_subtask_list,
                 subtask_error_flag, subtask_error_message, stepVars, callVars,
                 schedVars>>

\* all subtasks of the task ended: the task is complete, or it is cleared
\* and planned again (continue)
TaskEnd ==
  /\ flow = "planning"
  /\ pc = "task_end"
  /\ IF ~task_error_flag
     THEN /\ completed_task_ids' = Append(completed_task_ids, next_task_id)
          /\ context_tree' =
               update_context_tree(context_tree,
                 [TaskArgs EXCEPT !.status = "completed"]).doc
          /\ task_i' = task_i + 1
          /\ pc' = "task_for"
     ELSE LET r == clear_context_tree_node(context_tree, TaskArgs)
          IN IF r.raised
             THEN /\ pc' = "crashed"
                  /\ UNCHANGED <<context_tree, completed_task_ids, task_i>>
             ELSE /\ context_tree' = r.doc
                  /\ pc' = "plan_task"
                  /\ UNCHANGED <<completed_task_ids, task_i>>
  /\ UNCHANGED <<flow, code_scheduling, storage_fails, faults, cap_replies, fileVars, planVars, error_log, error_id, reqVars, task_graph_json,
                 next_task_list, task_error_flag, task_error_message,
                 task_error_num, last_error, subtaskVars, stepVars, callVars,
                 schedVars>>

\* all tasks ended: the request is complete, or it is cleared and planned again
RequestEnd ==
  /\ flow = "planning"
  /\ pc = "request_end"
  /\ IF ~original_request_error_flag
     THEN /\ context_tree' =
               update_context_tree(context_tree,
                 [Args EXCEPT !.status = "completed"]).doc
          /\ pc' = "done"
     ELSE /\ context_tree' = clear_context_tree_node(context_tree, Args).doc
          /\ pc' = "plan_request"
  /\ UNCHANGED <<flow, code_scheduling, storage_fails, faults, cap_replies, fileVars, planVars, error_log, error_id, reqVars, taskVars, subtaskVars,
                 stepVars, callVars, schedVars>>

Next ==
  \/ Start \/ PlanRequest \/ JgcMalformed \/ JgcAbandon \/ JgcReply
  \/ RegisterTasks
  \/ ScheduleTasks \/ TaskBegin \/ TaskLoopEnd \/ PlanTask \/ RegisterSubtasks
  \/ ScheduleSubtasks \/ SubtaskBegin \/ SubtaskLoopEnd \/ PlanSubtask
  \/ RegisterSteps \/ ScheduleSteps \/ StepBegin \/ StepLoopEnd \/ ExecStep
  \/ StepOutcome \/ SubtaskEnd \/ TaskEnd \/ RequestEnd

Spec == InitPlanning /\ [][Next]_vars

\* the process ends at any point of task_planning (an exception, a kill) and
\* the program is started again: main empties context_tree.json and calls
\* task_planning for request_id "1", whose locals start afresh; error.json is
\* left to init_files
Restart ==
  /\ flow = "planning"
  /\ pc # "start"
  /\ pc' = "start"
  /\ context_tree' = EmptyDoc
  /\ error_id' = 0
  /\ original_request_error_flag' = FALSE
  /\ original_request_error_message' = ""
  /\ plan_original_request_num' = 0
  /\ task_graph_json' = <<>> /\ completed_task_ids' = <<>>
  /\ next_task_list' = <<>> /\ task_i' = 0
  /\ task_error_flag' = FALSE /\ task_error_message' = ""
  /\ task_error_num' = 0 /\ last_error' = ""
  /\ subtask_graph_json' = <<>> /\ completed_subtask_ids' = <<>>
  /\ next_subtask_list' = <<>> /\ subtask_i' = 0
  /\ subtask_error_flag' = FALSE /\ subtask_error_message' = ""
  /\ steps_graph_json' = <<>> /\ completed_step_ids' = <<>>
  /\ next_step_list' = <<>> /\ step_i' = 0
  /\ step_error_flag' = FALSE /\ step_error_message' = ""
  /\ action' = NoAction
  /\ plan_call' = NoCall
  /\ count_flag_false' = 0 /\ message' = NoMessage /\ thread_calls' = 0
  /\ result' = <<>>
  /\ planmessage' = <<>>
  /\ jgc_ret' = None
  /\ review' = NoReview
  /\ other_input' = <<>>
  /\ planner_sent' = [p \in Planners |-> NoInputs]
  /\ UNCHANGED <<flow, code_scheduling, storage_fails, faults, cap_replies, fileVars, error_log, inspector_thread,
                 inspector_type, schedVars>>

NextRestart == Next \/ Restart

SpecRestart == InitPlanning /\ [][NextRestart]_vars

\* task_planning with DEBUG_CODE_SCHEDULING unset: the three levels ask their
\* scheduler agents
InitAgentSched ==
  /\ flow = "planning"
  /\ code_scheduling = FALSE
  /\ storage_fails = FALSE
  /\ faults = TRUE
  /\ cap_replies = <<>>
  /\ pc = "start"
  /\ InitLocals
  /\ tree_file = AbsentFile /\ error_file = AbsentFile
  /\ file_result = NoFileCall
  /\ inspector_type = "off"
  /\ inspector_thread = FALSE
  /\ sched_graph = <<>> /\ sched_completed = <<>>
  /\ sched_result = [raised |-> FALSE, next_ids |-> <<>>]

SpecAgentSched == InitAgentSched /\ [][Next]_vars

(***************************************************************************)
(* task_planning_rag                                                       *)
(***************************************************************************)
\* if task_error_num < 3: optimize the task again, else replan the request
RetryLimit == 3

ShouldRetry_Inclusive(n) == n <= RetryLimit

ShouldRetry_Never(n) == FALSE

ShouldRetry(n) == n < RetryLimit

\* capability replies, capped by MaxRagFails
RagOutcomes ==
  IF faults /\ error_id < MaxRagFails
  THEN {TryOutcome(replies) : replies \in CapabilityReplies}
         \cup (IF storage_fails THEN {"STORE"} ELSE {})
  ELSE {TryOutcome(<<SuccessReply>>)}

\* replies of the optimizer of the capability group: a JSON object with
\* 'description' and 'agent', or one without them ({} after the format
\* retries), on which optimize_res_json["description"] raises KeyError
OptimizerReplies ==
  IF faults THEN {"optimized", "no description"} ELSE {"optimized"}

\* next_task["description"] = ...: next_task is the node of task_graph_json
SetDescription(graph, id, description) ==
  [graph EXCEPT ![Find(graph, id)].description = description]

InitRag ==
  /\ flow = "rag"
  /\ code_scheduling = TRUE
  /\ storage_fails = FALSE
  /\ faults = TRUE
  /\ cap_replies = <<>>
  /\ pc = "start"
  /\ InitLocals
  /\ tree_file = AbsentFile /\ error_file = AbsentFile
  /\ file_result = NoFileCall
  /\ inspector_type = "off"
  /\ inspector_thread = FALSE
  /\ sched_graph = <<>> /\ sched_completed = <<>>
  /\ sched_result = [raised |-> FALSE, next_ids |-> <<>>]

RagStart ==
  /\ flow = "rag"
  /\ pc = "start"
  /\ error_log' = EmptyLog
  /\ context_tree' = init_context_tree(context_tree, RequestId, RequestText)
  /\ original_request_error_flag' = FALSE
  /\ original_request_error_message' = ""
  /\ error_id' = 0
  /\ plan_original_request_num' = 0
  /\ pc' = "plan_request"
  /\ UNCHANGED <<flow, code_scheduling, storage_fails, faults, cap_replies, fileVars, planVars, taskVars, subtaskVars, stepVars, callVars, schedVars>>

\* rag_flow: the answer of the knowledge base to the request, and what the
\* user typed when the knowledge base asked back (nothing, or one answer)
RagResponses == {"manual A", "manual B"}
UserInputs == {<<>>, <<"user answer">>}

\* the rag task planner is asked for the task graph of the request; with
\* USE_RAG set planning_layer adds other_input to original_request, calls
\* rag_flow and adds its answer to the message
RagPlanRequest ==
  /\ flow = "rag"
  /\ pc = "plan_request"
  /\ \E rag_response \in RagResponses, user_input \in UserInputs :
       /\ PlanningCall("task_rag", "original request",
                       <<RequestText, rag_response>>,
                       <<RequestText>> \o other_input,
                       original_request_error_message, "reg_tasks")
       /\ other_input' = other_input \o user_input
  /\ UNCHANGED <<flow, code_scheduling, storage_fails, faults, cap_replies, fileVars, planner_sent, docVars, reqVars, taskVars, subtaskVars, stepVars,
                 schedVars>>

\* the error flag and the error file are reset, the tasks are registered
RagRegisterTasks ==
  /\ flow = "rag"
  /\ pc = "reg_tasks"
  /\ original_request_error_flag' = FALSE
  /\ error_log' = EmptyLog
  /\ task_graph_json' = planmessage
  /\ context_tree' = RegisterAll(context_tree, planmessage, Args, "task_id")
  /\ completed_task_ids' = <<>>
  /\ pc' = "sched_tasks"
  /\ UNCHANGED <<flow, code_scheduling, storage_fails, faults, cap_replies, fileVars, planVars, error_id, original_request_error_message,
                 plan_original_request_num, next_task_list, task_i,
                 task_error_flag, task_error_message, task_error_num,
                 last_error, subtaskVars, stepVars, callVars, schedVars>>

RagScheduleTasks ==
  /\ flow = "rag"
  /\ pc = "sched_tasks"
  /\ LET r == code_scheduling_layer(task_graph_json, completed_task_ids)
     IN IF r.raised
        THEN pc' = "crashed" /\ UNCHANGED <<next_task_list, task_i>>
        ELSE /\ next_task_list' = r.next_ids
             /\ IF r.next_ids = <<>>
                THEN pc' = "request_end" /\ UNCHANGED task_i
                ELSE pc' = "task_for" /\ task_i' = 1
  /\ UNCHANGED <<flow, code_scheduling, storage_fails, faults, cap_replies, fileVars, planVars, docVars, reqVars, task_graph_json, completed_task_ids,
                 task_error_flag, task_error_message, task_error_num,
                 last_error, subtaskVars, stepVars, callVars, schedVars>>

\* for next_task_id in next_task_list: task_input, the task is marked executing
RagTaskBegin ==
  /\ flow = "rag"
  /\ pc = "task_for"
  /\ task_i <= Len(next_task_list)
  /\ task_error_flag' = FALSE
  /\ task_error_message' = ""
  /\ last_error' = ""
  /\ context_tree' =
       update_context_tree(context_tree,
         [TaskArgs EXCEPT !.status = "executing"]).doc
  /\ pc' = "optimize"
  /\ UNCHANGED <<flow, code_scheduling, storage_fails, faults, cap_replies, fileVars, planVars, error_log, error_id, reqVars, task_graph_json,
                 completed_task_ids, next_task_list, task_i, task_error_num,
                 subtaskVars, stepVars, callVars, schedVars>>

\* the ready tasks are done: if original_request_error_flag: break
RagTaskLoopEnd ==
  /\ flow = "rag"
  /\ pc = "task_for"
  /\ task_i > Len(next_task_list)
  /\ pc' = IF original_request_error_flag THEN "request_end" ELSE "sched_tasks"
  /\ UNCHANGED <<flow, code_scheduling, storage_fails, faults, cap_replies, fileVars, planVars, docVars, reqVars, taskVars, subtaskVars, stepVars,
                 callVars, schedVars>>

\* task_optimizing_layer replies; the description is written to the task
Optimized(next_pc) ==
  \E reply \in OptimizerReplies :
    IF reply = "optimized"
    THEN /\ task_graph_json' =
              SetDescription(task_graph_json, next_task_id, OptimizedDesc)
         /\ context_tree' =
              update_context_tree(context_tree,
                [TaskArgs EXCEPT !.description = OptimizedDesc,
                                 !.status = "executing"]).doc
         /\ pc' = next_pc
    ELSE /\ pc' = "crashed"
         /\ UNCHANGED <<task_graph_json, context_tree>>

\* the first optimization of the task, then task_error_num = 0
RagOptimize ==
  /\ flow = "rag"
  /\ pc = "optimize"
  /\ Optimized("exec_task")
  /\ task_error_num' = IF pc' = "crashed" THEN task_error_num ELSE 0
  /\ UNCHANGED <<flow, code_scheduling, storage_fails, faults, cap_replies, fileVars, planVars, error_log, error_id, reqVars, completed_task_ids,
                 next_task_list, task_i, task_error_flag, task_error_message,
                 last_error, subtaskVars, stepVars, callVars, schedVars>>

\* the capability agent executes the task: the try block and its except
RagExec ==
  /\ flow = "rag"
  /\ pc = "exec_task"
  /\ \E outcome \in RagOutcomes :
       IF outcome = "EXC"
       THEN /\ error_id' = error_id + 1
            /\ task_error_flag' = TRUE
            /\ task_error_message' = ExcText
            /\ UNCHANGED <<action, context_tree, error_log>>
       ELSE IF outcome = "STORE"
       THEN /\ action' = Reply("SUCCESS")
            /\ error_id' = error_id + 1
            /\ task_error_flag' = TRUE
            /\ task_error_message' = StorageErrorText
            /\ UNCHANGED <<context_tree, error_log>>
       ELSE /\ action' = Reply(outcome)
            /\ context_tree' =
                 update_context_tree(context_tree,
                   [TaskArgs EXCEPT !.rag_action = Reply(outcome)]).doc
            /\ IF outcome = "FAIL"
               THEN /\ error_id' = error_id + 1
                    /\ task_error_flag' = TRUE
                    /\ task_error_message' = Reply(outcome).context
                    /\ error_log' = update_error(error_log, error_id + 1,
                                                 Reply(outcome).context,
                                                 next_task)
               ELSE /\ task_error_flag' = FALSE
                    /\ task_error_message' = ""
                    /\ UNCHANGED <<error_id, error_log>>
  /\ pc' = "task_outcome"
  /\ UNCHANGED <<flow, code_scheduling, storage_fails, faults, cap_replies, fileVars, planVars, reqVars, task_graph_json, completed_task_ids,
                 next_task_list, task_i, task_error_num, last_error,
                 subtaskVars, steps_graph_json, completed_step_ids,
                 next_step_list, step_i, step_error_flag, step_error_message,
                 callVars, schedVars>>

\* after the try block: the task is complete (break), or it is cleared and
\* either optimized again or given up (break)
RagOutcome ==
  /\ flow = "rag"
  /\ pc = "task_outcome"
  /\ IF ~task_error_flag
     THEN /\ pc' = "task_done"
          /\ UNCHANGED <<task_error_num, context_tree, last_error,
                         original_request_error_flag,
                         original_request_error_message>>
     ELSE LET r == clear_context_tree_node(context_tree, TaskArgs)
          IN /\ task_error_num' = task_error_num + 1
             /\ IF r.raised
                THEN /\ pc' = "crashed"
                     /\ UNCHANGED <<context_tree, last_error,
                                    original_request_error_flag,
                                    original_request_error_message>>
                ELSE /\ context_tree' = r.doc
                     /\ IF ShouldRetry(task_error_num + 1)
                        THEN /\ last_error' = task_error_message
                             /\ pc' = "optimize_again"
                             /\ UNCHANGED <<original_request_error_flag,
                                            original_request_error_message>>
                        ELSE /\ original_request_error_flag' = TRUE
                             /\ original_request_error_message' = task_error_message
                             /\ pc' = "task_done"
                             /\ UNCHANGED last_error
  /\ UNCHANGED <<flow, code_scheduling, storage_fails, faults, cap_replies, fileVars, planVars, error_log, error_id, plan_original_request_num,
                 task_graph_json, completed_task_ids, next_task_list, task_i,
                 task_error_flag, task_error_message, subtaskVars, stepVars,
                 callVars, schedVars>>

\* task_optimizing_layer with last_error set, then continue
RagOptimizeAgain ==
  /\ flow = "rag"
  /\ pc = "optimize_again"
  /\ Optimized("exec_task")
  /\ UNCHANGED <<flow, code_scheduling, storage_fails, faults, cap_replies, fileVars, planVars, error_log, error_id, reqVars, completed_task_ids,
                 next_task_list, task_i, task_error_flag, task_error_message,
                 task_error_num, last_error, subtaskVars, stepVars, callVars,
                 schedVars>>

\* after the while loop: the task joins the completed list
RagTaskDone ==
  /\ flow = "rag"
  /\ pc = "task_done"
  /\ completed_task_ids' = Append(completed_task_ids, next_task_id)
  /\ context_tree' =
       update_context_tree(context_tree,
         [TaskArgs EXCEPT !.status = "completed"]).doc
  /\ task_i' = task_i + 1
  /\ pc' = "task_for"
  /\ UNCHANGED <<flow, code_scheduling, storage_fails, faults, cap_replies, fileVars, planVars, error_log, error_id, reqVars, task_graph_json,
                 next_task_list, task_error_flag, task_error_message,
                 task_error_num, last_error, subtaskVars, stepVars, callVars,
                 schedVars>>

\* all tasks ended: the request is complete, or it is cleared and planned again
RagRequestEnd ==
  /\ flow = "rag"
  /\ pc = "request_end"
  /\ IF ~original_request_error_flag
     THEN /\ context_tree' =
               update_context_tree(context_tree,
                 [Args EXCEPT !.status = "completed"]).doc
          /\ pc' = "done"
          /\ UNCHANGED plan_original_request_num
     ELSE /\ plan_original_request_num' = plan_original_request_num + 1
          /\ context_tree' = clear_context_tree_node(context_tree, Args).doc
          /\ pc' = "plan_request"
  /\ UNCHANGED <<flow, code_scheduling, storage_fails, faults, cap_replies, fileVars, planVars, error_log, error_id, original_request_error_flag,
                 original_request_error_message, taskVars, subtaskVars,
                 stepVars, callVars, schedVars>>

NextRag ==
  \/ RagStart \/ RagPlanRequest \/ JgcMalformed \/ JgcAbandon \/ JgcReply
  \/ RagRegisterTasks \/ RagScheduleTasks \/ RagTaskBegin \/ RagTaskLoopEnd
  \/ RagOptimize \/ RagExec \/ RagOutcome \/ RagOptimizeAgain \/ RagTaskDone
  \/ RagRequestEnd

SpecRag == InitRag /\ [][NextRag]_vars

(***************************************************************************)
(* SpecFlows: a request is processed by task_planning or by                *)
(* task_planning_rag (use_rag of the entry script).                        *)
(***************************************************************************)
InitFlows == InitPlanning \/ InitRag

NextFlows == Next \/ NextRag

SpecFlows == InitFlows /\ [][NextFlows]_vars

\* SpecStorage: either flow on storage whose reads and writes may fail
InitStorage ==
  /\ flow \in {"planning", "rag"}
  /\ code_scheduling = TRUE
  /\ storage_fails = TRUE
  /\ faults = TRUE
  /\ cap_replies = <<>>
  /\ pc = "start"
  /\ InitLocals
  /\ tree_file = AbsentFile /\ error_file = AbsentFile
  /\ file_result = NoFileCall
  /\ inspector_type = "off"
  /\ inspector_thread = FALSE
  /\ sched_graph = <<>> /\ sched_completed = <<>>
  /\ sched_result = [raised |-> FALSE, next_ids |-> <<>>]

SpecStorage == InitStorage /\ [][NextFlows]_vars

(***************************************************************************)
(* The document operations on files: open(), json.load, json.dump.         *)
(***************************************************************************)
\* with open(path, "r") as f: json.load(f)
json_load(file) ==
  CASE file.kind = "absent" -> [raised |-> "FileNotFoundError", data |-> EmptyDoc]
    [] file.kind \in {"empty", "malformed"} ->
         [raised |-> "JSONDecodeError", data |-> EmptyDoc]
    [] OTHER -> [raised |-> None, data |-> file.data]

\* init_context_tree: open() is outside the try, json.load inside it with
\* except json.JSONDecodeError: context_tree = {}
init_context_tree_file(file, request_id, content) ==
  LET r == json_load(file)
  IN IF r.raised = "FileNotFoundError"
     THEN [raised |-> r.raised, file |-> file]
     ELSE [raised |-> None,
           file |-> JsonFile(init_context_tree(r.data, request_id, content))]

\* update_context_tree: open() and json.load with no try
update_context_tree_file(file, a) ==
  LET r == json_load(file)
      u == update_context_tree(r.data, a)
  IN IF r.raised # None THEN [raised |-> r.raised, file |-> file]
     ELSE IF u.raised THEN [raised |-> "Exception", file |-> file]
     ELSE [raised |-> None, file |-> JsonFile(u.doc)]

\* clear_context_tree_node: open() and json.load with no try
clear_context_tree_node_file(file, a) ==
  LET r == json_load(file)
      c == clear_context_tree_node(r.data, a)
  IN IF r.raised # None THEN [raised |-> r.raised, file |-> file]
     ELSE IF c.raised THEN [raised |-> "Exception", file |-> file]
     ELSE [raised |-> None, file |-> JsonFile(c.doc)]

\* update_error: except json.JSONDecodeError: data = {} and
\* except FileNotFoundError: data = {}
update_error_file(file, id, error, step) ==
  LET r == json_load(file)
  IN [raised |-> None, file |-> JsonFile(update_error(r.data, id, error, step))]

\* the tree when the first step of the first subtask of the first task of
\* the request is about to be executed
ExecutingTree ==
  LET executing(a, node) ==
        [a EXCEPT !.status = "executing", !.title = node.title,
                  !.description = node.description]
      task == [Args EXCEPT !.task_id = IdPool[1]]
      subtask == [task EXCEPT !.subtask_id = IdPool[1]]
      step == [subtask EXCEPT !.step_id = IdPool[1]]
      t0 == init_context_tree(EmptyDoc, RequestId, RequestText)
      t1 == RegisterAll(t0, Indep(2), Args, "task_id")
      t2 == update_context_tree(t1, executing(task, Indep(2)[1])).doc
      t3 == RegisterAll(t2, Indep(2), task, "subtask_id")
      t4 == update_context_tree(t3, executing(subtask, Indep(2)[1])).doc
      t5 == RegisterAll(t4, Indep(MaxSteps), subtask, "step_id")
  IN update_context_tree(t5, executing(step, Indep(MaxSteps)[1])).doc

\* the tree after that step has returned FAIL
LoggedTree ==
  update_context_tree(ExecutingTree,
    [Args EXCEPT !.task_id = IdPool[1], !.subtask_id = IdPool[1],
                 !.step_id = IdPool[1], !.action = Reply("FAIL")]).doc

\* context_tree.json as a run may find it
TreeFiles ==
  {AbsentFile, EmptyFile, MalformedFile, JsonFile(EmptyDoc),
   JsonFile(init_context_tree(EmptyDoc, RequestId, RequestText)),
   JsonFile(LoggedTree)}

\* error.json as a run may find it
ErrorFiles ==
  {AbsentFile, EmptyFile, MalformedFile, JsonFile(EmptyLog),
   JsonFile(update_error(EmptyLog, 1, ExcText, IdPool[1]))}

\* the arguments the flows give update_context_tree
UpdateArgs ==
  {[Args EXCEPT !.status = "completed"],
   [Args EXCEPT !.task_id = IdPool[1], !.status = "pending",
                !.title = "title", !.description = "description"],
   [Args EXCEPT !.task_id = IdPool[1], !.status = "completed"]}

\* the arguments of clear_context_tree_node: the request, or a task, a
\* subtask or a step by the ids on the way to it, each in the tree or not
ClearIds == {IdPool[1], GhostId}

ClearArgs ==
  {Args}
    \cup {[Args EXCEPT !.task_id = t] : t \in ClearIds}
    \cup {[Args EXCEPT !.task_id = t, !.subtask_id = st] : t, st \in ClearIds}
    \cup {[Args EXCEPT !.task_id = t, !.subtask_id = st, !.step_id = sp] :
            t, st, sp \in ClearIds}

InitFiles ==
  /\ flow = "files"
  /\ code_scheduling = TRUE
  /\ storage_fails = FALSE
  /\ faults = TRUE
  /\ cap_replies = <<>>
  /\ pc = "file_call"
  /\ InitLocals
  /\ inspector_type = "off"
  /\ inspector_thread = FALSE
  /\ sched_graph = <<>> /\ sched_completed = <<>>
  /\ sched_result = [raised |-> FALSE, next_ids |-> <<>>]
  /\ tree_file \in TreeFiles
  /\ error_file \in ErrorFiles
  /\ file_result = NoFileCall

FileFrame ==
  UNCHANGED <<flow, code_scheduling, storage_fails, faults, cap_replies, pc, docVars, reqVars,
              taskVars, subtaskVars, stepVars, callVars, schedVars, planVars>>

CallInitContextTree ==
  /\ flow = "files"
  /\ LET r == init_context_tree_file(tree_file, RequestId, RequestText)
     IN /\ tree_file' = r.file
        /\ file_result' = [op |-> "init_context_tree", args |-> None,
                           before |-> tree_file,
                           raised |-> r.raised]
  /\ UNCHANGED error_file
  /\ FileFrame

CallUpdateContextTree ==
  /\ flow = "files"
  /\ \E a \in UpdateArgs :
       LET r == update_context_tree_file(tree_file, a)
       IN /\ tree_file' = r.file
          /\ file_result' = [op |-> "update_context_tree", args |-> a,
                             before |-> tree_file,
                             raised |-> r.raised]
  /\ UNCHANGED error_file
  /\ FileFrame

CallClearContextTreeNode ==
  /\ flow = "files"
  /\ \E a \in ClearArgs :
       LET r == clear_context_tree_node_file(tree_file, a)
       IN /\ tree_file' = r.file
          /\ file_result' = [op |-> "clear_context_tree_node", args |-> a,
                             before |-> tree_file, raised |-> r.raised]
  /\ UNCHANGED error_file
  /\ FileFrame

CallUpdateError ==
  /\ flow = "files"
  /\ \E id \in 1..2 :
       LET r == update_error_file(error_file, id, ExcText, IdPool[1])
       IN /\ error_file' = r.file
          /\ file_result' = [op |-> "update_error", args |-> None,
                             before |-> error_file,
                             raised |-> r.raised]
  /\ UNCHANGED tree_file
  /\ FileFrame

NextFiles ==
  \/ CallInitContextTree
  \/ CallUpdateContextTree
  \/ CallClearContextTreeNode
  \/ CallUpdateError

SpecFiles == InitFiles /\ [][NextFiles]_vars

(***************************************************************************)
(* SpecNoFault: either flow when every planning call returns a graph that  *)
(* can be scheduled to its end, every optimization a description and every *)
(* execution SUCCESS.  The flows are sequential programs: each step that   *)
(* can be taken is taken.                                                  *)
(***************************************************************************)
InitNoFault ==
  /\ flow \in {"planning", "rag"}
  /\ code_scheduling = TRUE
  /\ storage_fails = FALSE
  /\ faults = FALSE
  /\ cap_replies = <<>>
  /\ pc = "start"
  /\ InitLocals
  /\ tree_file = AbsentFile /\ error_file = AbsentFile
  /\ file_result = NoFileCall
  /\ inspector_type = "off"
  /\ inspector_thread = FALSE
  /\ sched_graph = <<>> /\ sched_completed = <<>>
  /\ sched_result = [raised |-> FALSE, next_ids |-> <<>>]

NextNoFault ==
  \/ Start \/ PlanRequest \/ JgcReply \/ RegisterTasks
  \/ ScheduleTasks \/ TaskBegin \/ TaskLoopEnd \/ PlanTask \/ RegisterSubtasks
  \/ ScheduleSubtasks \/ SubtaskBegin \/ SubtaskLoopEnd \/ PlanSubtask
  \/ RegisterSteps \/ ScheduleSteps \/ StepBegin \/ StepLoopEnd \/ ExecStep
  \/ StepOutcome \/ SubtaskEnd \/ TaskEnd \/ RequestEnd
  \/ RagStart \/ RagPlanRequest \/ RagRegisterTasks \/ RagScheduleTasks
  \/ RagTaskBegin \/ RagTaskLoopEnd \/ RagOptimize \/ RagExec \/ RagOutcome
  \/ RagTaskDone \/ RagRequestEnd

SpecNoFault == InitNoFault /\ [][NextNoFault]_vars /\ WF_vars(NextNoFault)

(***************************************************************************)
(* SpecCapability: one execution of a step of task_planning on every list  *)
(* of replies of its capability agents, from the call of                   *)
(* capability_agents_processor to the end of the handling of its outcome.  *)
(***************************************************************************)
\* task_planning at its first call of capability_agents_processor
InitCapability ==
  /\ flow = "planning"
  /\ code_scheduling = TRUE
  /\ storage_fails = FALSE
  /\ faults = TRUE
  /\ cap_replies \in CapabilityReplies
  /\ pc = "exec_step"
  /\ context_tree = ExecutingTree
  /\ error_log = EmptyLog
  /\ error_id = 0
  /\ original_request_error_flag = FALSE
  /\ original_request_error_message = ""
  /\ plan_original_request_num = 0
  /\ task_graph_json = Indep(2) /\ completed_task_ids = <<>>
  /\ next_task_list = <<IdPool[1], IdPool[2]>> /\ task_i = 1
  /\ task_error_flag = FALSE /\ task_error_message = ""
  /\ task_error_num = 0 /\ last_error = ""
  /\ subtask_graph_json = Indep(2) /\ completed_subtask_ids = <<>>
  /\ next_subtask_list = <<IdPool[1], IdPool[2]>> /\ subtask_i = 1
  /\ subtask_error_flag = FALSE /\ subtask_error_message = ""
  /\ steps_graph_json = Indep(MaxSteps) /\ completed_step_ids = <<>>
  /\ next_step_list = [k \in 1..MaxSteps |-> IdPool[k]] /\ step_i = 1
  /\ step_error_flag = FALSE /\ step_error_message = ""
  /\ action = NoAction
  /\ plan_call = NoCall
  /\ NoJgcLocals
  /\ planmessage = Indep(MaxSteps)
  /\ jgc_ret = None
  /\ review = NoReview
  /\ other_input = <<>>
  /\ planner_sent =
       [p \in Planners |->
          CASE p = "task" ->
                 [overall_id |-> "original request", message |-> <<RequestText>>,
                  original_request |-> RequestText]
            [] p \in {"subtask", "step"} ->
                 [overall_id |-> IdPool[1], message |-> <<IdPool[1], PlannedDesc>>,
                  original_request |-> PlannedDesc]
            [] OTHER -> NoInputs]
  /\ tree_file = AbsentFile /\ error_file = AbsentFile
  /\ file_result = NoFileCall
  /\ inspector_type = "off"
  /\ inspector_thread = TRUE
  /\ sched_graph = <<>> /\ sched_completed = <<>>
  /\ sched_result = [raised |-> FALSE, next_ids |-> <<>>]

\* the try block on the replies at hand
CapExecStep ==
  /\ flow = "planning"
  /\ pc = "exec_step"
  /\ StepTry(TryOutcome(cap_replies))
  /\ pc' = "step_outcome"
  /\ UNCHANGED <<flow, code_scheduling, storage_fails, faults, cap_replies, fileVars, planVars, reqVars, taskVars, subtaskVars, steps_graph_json,
                 completed_step_ids, next_step_list, step_i, callVars,
                 schedVars>>

NextCapability == CapExecStep \/ StepOutcome

SpecCapability == InitCapability /\ [][NextCapability]_vars

(***************************************************************************)
(* Properties.                                                             *)
(***************************************************************************)

\* the tree records of the request, of a task and of a subtask
TreeTasks ==
  IF RequestId \in DOMAIN context_tree THEN context_tree[RequestId].tasks ELSE <<>>
TreeSubtasks(task_id) ==
  IF Find(TreeTasks, task_id) = 0 THEN <<>>
  ELSE NodeOf(TreeTasks, task_id).subtasks
TreeSteps(task_id, subtask_id) ==
  IF Find(TreeSubtasks(task_id), subtask_id) = 0 THEN <<>>
  ELSE NodeOf(TreeSubtasks(task_id), subtask_id).steps

\* every node of the graph is in the completed-id list and completed in the tree
AllItemsCompleted(graph, completed_ids, records) ==
  \A id \in GraphKeys(graph) :
    /\ id \in ToSet(completed_ids)
    /\ Find(records, id) # 0
    /\ NodeOf(records, id).status = "completed"

C2_CompletedOnlyWithAllItems ==
  /\ (flow = "planning" /\ pc = "subtask_for" /\ subtask_i > 1) =>
       AllItemsCompleted(steps_graph_json, completed_step_ids,
                         TreeSteps(next_task_id, next_subtask_list[subtask_i - 1]))
  /\ (flow = "planning" /\ pc = "task_for" /\ task_i > 1) =>
       AllItemsCompleted(subtask_graph_json, completed_subtask_ids,
                         TreeSubtasks(next_task_list[task_i - 1]))
  /\ (flow = "planning" /\ pc = "done") =>
       AllItemsCompleted(task_graph_json, completed_task_ids, TreeTasks)

\* C3: in task_planning_rag every task that is completed in the tree, and
\* every id of completed_task_ids, has SUCCESS as the result of its last
\* capability execution.
C3_CompletedOnlyAfterSuccess ==
  flow = "rag" =>
    /\ \A k \in DOMAIN TreeTasks :
         TreeTasks[k].status = "completed" =>
           /\ TreeTasks[k].rag_actions # <<>>
           /\ TreeTasks[k].rag_actions[Len(TreeTasks[k].rag_actions)].result = "SUCCESS"
    /\ (pc = "task_for" /\ task_i > 1) => ~task_error_flag

C5_ThirdFailOptimizesAgain ==
  (/\ flow = "rag"
   /\ pc \in {"optimize_again", "task_done"}
   /\ task_error_flag
   /\ task_error_num = 3
   /\ Len(NodeOf(TreeTasks, next_task_id).rag_actions) = 3)
  => pc = "optimize_again"

\* C6: in task_planning no step is begun or executed while the failure of a
\* step has not been replanned: not in the subtask of the failed step
\* (subtask_error_flag), not in another subtask of the task (task_error_flag).
C6_NoExecutionAfterFailure ==
  flow = "planning" =>
    /\ pc \in {"step_for", "exec_step", "step_outcome"} =>
         ~subtask_error_flag /\ ~task_error_flag
    /\ pc \in {"subtask_for", "plan_subtask", "reg_steps", "sched_steps"} =>
         ~task_error_flag

\* C6 witness: the first step of a ready set of two failed, the subtask is
\* the first of a ready set of two, and the task is being planned again
C6_Witness ==
  /\ flow = "planning"
  /\ pc = "jgc"
  /\ task_error_flag
  /\ subtask_error_flag
  /\ step_i < Len(next_step_list)
  /\ subtask_i < Len(next_subtask_list)

\* C7: in task_planning_rag no task is optimized or executed while the
\* request-level error flag is set.
C7_NoTaskAfterEscalation ==
  (flow = "rag" /\ pc \in {"optimize", "exec_task", "optimize_again"})
  => ~original_request_error_flag

\* C8: a request, a task or a subtask that is completed in the tree has
\* children there: its planning call did not yield the empty graph.
C8_CompletedHasChildren ==
  flow = "planning" =>
    /\ (pc \in {"request_end", "done"} /\ context_tree[RequestId].status = "completed") =>
         TreeTasks # <<>>
    /\ \A k \in DOMAIN TreeTasks :
         /\ TreeTasks[k].status = "completed" => TreeTasks[k].subtasks # <<>>
         /\ \A j \in DOMAIN TreeTasks[k].subtasks :
              TreeTasks[k].subtasks[j].status = "completed" =>
                TreeTasks[k].subtasks[j].steps # <<>>

\* code_scheduling_layer on a cyclic graph: no exception, and no ready id
\* once the nodes that do not depend on the cycle are completed
CyclicSchedulingOk(graph, completed_ids) ==
  LET r == code_scheduling_layer(graph, completed_ids)
  IN /\ ~r.raised
     /\ Resolvable(graph, {}) \subseteq ToSet(completed_ids) => r.next_ids = <<>>

\* C9: in task_planning code_scheduling_layer does not raise on a cyclic
\* graph, it returns the empty list once the nodes that do not depend on the
\* cycle are completed, and the level then ends as complete: the unit joins
\* the completed-id list and is completed in the tree, no error flag is set.
C9_CycleEndsLevel ==
  flow = "planning" =>
    /\ pc # "crashed"
    /\ (pc = "sched_steps" /\ Cyclic(steps_graph_json)) =>
         CyclicSchedulingOk(steps_graph_json, completed_step_ids)
    /\ (pc = "sched_subtasks" /\ Cyclic(subtask_graph_json)) =>
         CyclicSchedulingOk(subtask_graph_json, completed_subtask_ids)
    /\ (pc = "sched_tasks" /\ Cyclic(task_graph_json)) =>
         CyclicSchedulingOk(task_graph_json, completed_task_ids)
    /\ (pc = "subtask_for" /\ subtask_i > 1 /\ Cyclic(steps_graph_json)) =>
         /\ ~subtask_error_flag
         /\ ToSet(completed_step_ids) = Resolvable(steps_graph_json, {})
         /\ next_subtask_list[subtask_i - 1] \in ToSet(completed_subtask_ids)
         /\ NodeOf(TreeSubtasks(next_task_id),
                   next_subtask_list[subtask_i - 1]).status = "completed"
    /\ (pc = "task_for" /\ task_i > 1 /\ Cyclic(subtask_graph_json)) =>
         /\ ~task_error_flag
         /\ ToSet(completed_subtask_ids) = Resolvable(subtask_graph_json, {})
         /\ next_task_list[task_i - 1] \in ToSet(completed_task_ids)
         /\ NodeOf(TreeTasks, next_task_list[task_i - 1]).status = "completed"
    /\ (pc = "done" /\ Cyclic(task_graph_json)) =>
         /\ ~original_request_error_flag
         /\ ToSet(completed_task_ids) = Resolvable(task_graph_json, {})
         /\ context_tree[RequestId].status = "completed"

\* C9 witness: a subtask ended as complete on a cyclic step graph of which
\* the one node that does not depend on the cycle was executed
C9_Witness ==
  /\ flow = "planning"
  /\ pc = "subtask_for"
  /\ subtask_i > 1
  /\ Cyclic(steps_graph_json)
  /\ completed_step_ids # <<>>
  /\ NodeOf(TreeSubtasks(next_task_id),
            next_subtask_list[subtask_i - 1]).status = "completed"

C11_TaskFailureReplansRequest ==
  (pc = "jgc" /\ task_error_flag) =>
    /\ plan_call.planner \in {"task", "task_rag"}
    /\ plan_call.error_message = task_error_message
    /\ TreeTasks = <<>>

\* C11: in task_planning_rag the request-level error flag leads to the
\* clearing of every task of the request and to a call of the request-level
\* planner with the message of the failure, whatever the number of earlier
\* replans; in task_planning the flag is never set, the request-level
\* planner is called without an error message, and the failure of a task
\* leads to the subtask planner for that task.
C11_RequestReplan ==
  /\ (flow = "rag" /\ pc = "jgc" /\ original_request_error_flag) =>
       /\ plan_call.planner = "task_rag"
       /\ plan_call.error_message = original_request_error_message
       /\ plan_call.error_message \in {FailContext, ExcText}
       /\ TreeTasks = <<>>
       /\ plan_original_request_num >= 1
  /\ (flow = "rag" /\ pc = "plan_request") =>
       (original_request_error_flag <=> plan_original_request_num >= 1)
  /\ flow = "planning" =>
       /\ ~original_request_error_flag
       /\ (pc = "jgc" /\ plan_call.planner = "task") =>
            plan_call.error_message = "" /\ TreeTasks = <<>>
       /\ (pc = "jgc" /\ task_error_flag) => plan_call.planner = "subtask"

\* C11 witness: the request is planned again for the second time in
\* task_planning_rag, with the message of the failure
C11_Witness ==
  /\ flow = "rag"
  /\ pc = "jgc"
  /\ original_request_error_flag
  /\ plan_original_request_num = 2
  /\ plan_call.error_message = FailContext

\* C12 as stated: a record of the error log stays in the log, unchanged,
\* in every step of the processing of a request.
C12_RecordsStay ==
  [][\A k \in DOMAIN error_log :
       k \in DOMAIN error_log' /\ error_log'[k] = error_log[k]]_vars

\* C12: a step changes the error log in one of two ways only: a record is
\* added under a new id, the id of the failure, and the others stay as they
\* are; or the log is emptied, which happens where the tasks of a
\* request-level planning call are registered.
C12_LogAddsOrEmpties ==
  [][\/ error_log' = error_log
     \/ /\ error_log' = EmptyLog
        /\ pc = "reg_tasks"
     \/ /\ DOMAIN error_log' = DOMAIN error_log \cup {error_id'}
        /\ error_id' \notin DOMAIN error_log
        /\ \A k \in DOMAIN error_log : error_log'[k] = error_log[k]]_vars

\* C12 witness: task_planning_rag planned the request again after a failure
\* that was written to the log, and the log is empty
C12_Witness ==
  /\ flow = "rag"
  /\ pc = "sched_tasks"
  /\ plan_original_request_num >= 1
  /\ original_request_error_message = FailContext
  /\ error_id >= 3
  /\ error_log = EmptyLog

\* C13: in both flows, when the execution of a step or of a task has
\* failed (FAIL or an exception) and its node is not yet cleared, the error
\* log holds a record under the id of the failure that names the unit.
C13_FailureLogged ==
  /\ (flow = "planning" /\ pc = "step_outcome" /\ step_error_flag) =>
       /\ error_id \in DOMAIN error_log
       /\ error_log[error_id].step = next_step
  /\ (flow = "rag" /\ pc = "task_outcome" /\ task_error_flag) =>
       /\ error_id \in DOMAIN error_log
       /\ error_log[error_id].step = next_task

\* C14 as stated: in task_planning, after the clearing that the failure of
\* a step triggers, every completed subtask of the same task is in the tree
\* as completed.
C14_CompletedSubtasksKept ==
  (flow = "planning" /\ pc = "jgc" /\ task_error_flag) =>
    \A id \in ToSet(completed_subtask_ids) :
      /\ Find(TreeSubtasks(next_task_id), id) # 0
      /\ NodeOf(TreeSubtasks(next_task_id), id).status = "completed"

\* C14: in task_planning no step changes or removes a completed task, and
\* none changes or removes a completed subtask, except that the clearing of
\* a failed task removes every subtask of that task, the completed ones
\* included.
C14_CompletedSiblingsFrame ==
  [][flow = "planning" =>
       \A k \in DOMAIN TreeTasks :
         /\ TreeTasks[k].status = "completed" =>
              k \in DOMAIN TreeTasks' /\ TreeTasks'[k] = TreeTasks[k]
         /\ \A j \in DOMAIN TreeTasks[k].subtasks :
              TreeTasks[k].subtasks[j].status = "completed" =>
                \/ /\ k \in DOMAIN TreeTasks'
                   /\ j \in DOMAIN TreeTasks'[k].subtasks
                   /\ TreeTasks'[k].subtasks[j] = TreeTasks[k].subtasks[j]
                \/ /\ pc = "task_end"
                   /\ task_error_flag
                   /\ TreeTasks[k].id = next_task_id
                   /\ k \in DOMAIN TreeTasks'
                   /\ TreeTasks'[k].subtasks = <<>>]_vars

\* C14 witness: a step of the second task failed after a subtask of that
\* task had completed; the clearing is over, the completed first task is in
\* the tree with its subtasks, the second task has no subtasks left
C14_Witness ==
  /\ flow = "planning"
  /\ pc = "jgc"
  /\ task_error_flag
  /\ completed_subtask_ids # <<>>
  /\ TreeSubtasks(next_task_id) = <<>>
  /\ \E k \in DOMAIN TreeTasks :
       /\ TreeTasks[k].id # next_task_id
       /\ TreeTasks[k].status = "completed"
       /\ TreeTasks[k].subtasks # <<>>

\* the steps of the list are in the records, completed, with their actions
StepsRecorded(step_ids, records) ==
  \A id \in ToSet(step_ids) :
    /\ Find(records, id) # 0
    /\ NodeOf(records, id).status = "completed"
    /\ NodeOf(records, id).actions # <<>>

\* C15 as stated: in task_planning, while the failure of a step is handled
\* and the failed level is planned again, every step of the subtask that
\* had completed is in the tree, completed, with its action log.
C15_CompletedStepKept ==
  (flow = "planning" /\ task_error_flag /\ pc \in {"task_end", "plan_task", "jgc"}) =>
    StepsRecorded(completed_step_ids, TreeSteps(next_task_id, next_subtask_id))

\* C15: in task_planning the completed steps of a subtask are in the tree
\* with their action logs, next to the failed step without actions, until
\* the failed subtask is cleared; the clearing of the subtask removes every
\* step of it, and the clearing of the task every subtask, before the task
\* is planned again.
C15_CompletedStepCleared ==
  flow = "planning" =>
    /\ (pc = "subtask_end" /\ subtask_error_flag) =>
         /\ StepsRecorded(completed_step_ids,
                          TreeSteps(next_task_id, next_subtask_id))
         /\ NodeOf(TreeSteps(next_task_id, next_subtask_id),
                   next_step_id).actions = <<>>
    /\ (pc = "task_end" /\ task_error_flag) =>
         /\ Find(TreeSubtasks(next_task_id), next_subtask_id) # 0
         /\ TreeSteps(next_task_id, next_subtask_id) = <<>>
    /\ (pc \in {"plan_task", "jgc"} /\ task_error_flag) =>
         /\ Find(TreeTasks, next_task_id) # 0
         /\ TreeSubtasks(next_task_id) = <<>>

\* C15 witness: of a ready set of two steps the first succeeded and the
\* second failed; the task is being planned again and has no subtasks
C15_Witness ==
  /\ flow = "planning"
  /\ pc = "jgc"
  /\ task_error_flag
  /\ Len(next_step_list) = 2
  /\ step_i = 2
  /\ completed_step_ids = <<next_step_list[1]>>
  /\ action.result = "FAIL"
  /\ TreeSubtasks(next_task_id) = <<>>

TaskAtWork ==
  pc \in {"plan_task", "reg_subtasks", "sched_subtasks", "subtask_for",
          "plan_subtask", "reg_steps", "sched_steps", "step_for", "exec_step",
          "step_outcome", "subtask_end", "task_end",
          "optimize", "exec_task", "task_outcome", "optimize_again"}

C17_AtMostThreeCalls ==
  (flow = "jgc" /\ thread_calls = count_flag_false) => thread_calls <= 3

\* C18: when the format retries of a planning call are used up, the call
\* ends in an error that stops the level: the next step of the flow is never
\* the registration, scheduling or completion of a substituted plan.
C18_ExhaustedCallFails ==
  [][pc = "jgc_abandon" => pc' = "crashed"]_vars

\* C19: with an inspector thread and the review not switched off, the value
\* json_get_completion returns was reviewed and approved as that same value.
C19_ReturnedPlanApproved ==
  (flow = "jgc" /\ pc = "jgc_done" /\ inspector_thread /\ inspector_type # "off") =>
    /\ review.reviewed
    /\ review.approved
    /\ review.task_graph = planmessage

\* C20: a planned task graph with a 'dep' id that is no key of the graph
\* makes the task level raise an error at its scheduling, before any task of
\* the graph is executed.
BrokenPlan(graph) ==
  \E k \in DOMAIN graph : ~(graph[k].dep \subseteq GraphKeys(graph))

C20_BrokenPlanRaises ==
  (flow = "planning" /\ BrokenPlan(task_graph_json)) =>
    pc \in {"sched_tasks", "crashed"}

\* C21: when the levels ask their scheduler agents, a task, subtask or step
\* whose execution has started has every id of its 'dep' in the completed
\* list of its level.
C21_StartedWithDepsCompleted ==
  (flow = "planning" /\ ~code_scheduling) =>
    /\ pc = "plan_task" => next_task.dep \subseteq ToSet(completed_task_ids)
    /\ pc = "plan_subtask" =>
         next_subtask.dep \subseteq ToSet(completed_subtask_ids)
    /\ pc = "exec_step" => next_step.dep \subseteq ToSet(completed_step_ids)

Grows(completed_ids, completed_ids_next, id) ==
  \/ completed_ids_next = completed_ids
  \/ /\ Len(completed_ids_next) = Len(completed_ids) + 1
     /\ SubSeq(completed_ids_next, 1, Len(completed_ids)) = completed_ids
     /\ completed_ids_next[Len(completed_ids_next)] \notin ToSet(completed_ids)
     /\ completed_ids_next[Len(completed_ids_next)] = id

SameInput(call, previous) == previous = Inputs(call)

\* C23 as stated: in both flows a planning call that carries an error text
\* has the message and original_request of the call the same planner served
\* before it, for the same unit.
C23_ReplanSameInput ==
  (pc \in {"jgc", "jgc_abandon"} /\ flow \in {"planning", "rag"}
     /\ plan_call.error_message # "") =>
    SameInput(plan_call, planner_sent[plan_call.planner])

\* C23: in task_planning a planning call that carries an error text has the
\* message and original_request of the call the same planner served before
\* it, for the same unit.
C23_ReplanSameInputPlanning ==
  (pc \in {"jgc", "jgc_abandon"} /\ flow = "planning"
     /\ plan_call.error_message # "") =>
    SameInput(plan_call, planner_sent[plan_call.planner])

\* C23: a task is planned a second time in task_planning
C23_Witness ==
  /\ flow = "planning"
  /\ pc = "jgc"
  /\ plan_call.planner = "subtask"
  /\ plan_call.error_message # ""
  /\ planner_sent["subtask"] = Inputs(plan_call)

\* C24: when the program is started again after the processing of the
\* request stopped, every task that the execution tree records as completed
\* is still recorded as completed.
C24_RestartKeepsCompleted ==
  [][(pc # "start" /\ pc' = "start") =>
       \A k \in DOMAIN TreeTasks :
         TreeTasks[k].status = "completed" =>
           /\ k \in DOMAIN TreeTasks'
           /\ TreeTasks'[k].status = "completed"]_vars

\* the ids of the records whose status is completed
CompletedIn(records) ==
  {records[k].id : k \in {j \in DOMAIN records : records[j].status = "completed"}}

\* a collaborator is being called while the task level, the subtask level of
\* the task at work, the step level of the subtask at work is going on
TaskLevelCall ==
  \/ pc \in {"jgc", "jgc_abandon"} /\ plan_call.planner \in {"subtask", "step"}
  \/ pc \in {"exec_step", "optimize", "exec_task", "optimize_again"}
SubtaskLevelCall ==
  \/ pc \in {"jgc", "jgc_abandon"} /\ plan_call.planner = "step"
  \/ pc = "exec_step"
StepLevelCall == pc = "exec_step"

C26_StorageFailureEndsRequest ==
  (step_error_message = StorageErrorText \/ task_error_message = StorageErrorText) =>
    pc = "crashed"

\* the file the last operation of SpecFiles worked on, as it is now
FileAfter == IF file_result.op = "update_error" THEN error_file ELSE tree_file

\* C27: when the tree or error-log document is absent or empty, each of
\* init_context_tree, update_context_tree, clear_context_tree_node and
\* update_error succeeds and leaves a well-formed document
C27_AbsentOrEmptyTolerated ==
  (flow = "files" /\ file_result.op # None
     /\ file_result.before.kind \in {"absent", "empty"}) =>
    /\ file_result.raised = None
    /\ FileAfter.kind = "json"

\* C28: when the document exists and is not well-formed, init_context_tree
\* and update_error fail with an error and leave the document as it was
C28_MalformedFailsUnchanged ==
  (flow = "files" /\ file_result.op \in {"init_context_tree", "update_error"}
     /\ file_result.before.kind = "malformed") =>
    /\ file_result.raised # None
    /\ FileAfter = file_result.before

\* log_next is log, or log with one entry appended
AppendOnly(log, log_next) ==
  /\ Len(log_next) \in {Len(log), Len(log) + 1}
  /\ SubSeq(log_next, 1, Len(log)) = log

\* the item at position k of both lists is the same item
SameItem(items, items_next, k) ==
  /\ k \in DOMAIN items /\ k \in DOMAIN items_next
  /\ items[k].id = items_next[k].id

\* the action logs of the steps that exist before and after a transition
\* change as Changes(actions, actions') says
StepLogs(Changes(_, _)) ==
  \A tk \in DOMAIN TreeTasks :
    SameItem(TreeTasks, TreeTasks', tk) =>
      \A sk \in DOMAIN TreeTasks[tk].subtasks :
        SameItem(TreeTasks[tk].subtasks, TreeTasks'[tk].subtasks, sk) =>
          \A pk \in DOMAIN TreeTasks[tk].subtasks[sk].steps :
            SameItem(TreeTasks[tk].subtasks[sk].steps,
                     TreeTasks'[tk].subtasks[sk].steps, pk) =>
              Changes(TreeTasks[tk].subtasks[sk].steps[pk].actions,
                      TreeTasks'[tk].subtasks[sk].steps[pk].actions)

\* the rag_actions of every task that exists before and after a transition
\* are kept, or one entry is appended
RagLogsAppendOnly ==
  \A tk \in DOMAIN TreeTasks :
    SameItem(TreeTasks, TreeTasks', tk) =>
      AppendOnly(TreeTasks[tk].rag_actions, TreeTasks'[tk].rag_actions)

\* C29 as stated: while a step or a task exists in the tree, its 'actions'
\* or 'rag_actions' only ever gain one entry at the end; no entry is
\* removed or rewritten.
C29_LogsAppendOnly ==
  [][RagLogsAppendOnly /\ StepLogs(AppendOnly)]_vars

\* the failed step is cleared: its action log is emptied
ClearedOrAppended(actions, actions_next) ==
  \/ AppendOnly(actions, actions_next)
  \/ /\ actions_next = <<>>
     /\ pc = "step_outcome" /\ step_error_flag

\* C29, amended: the rag_actions of a task are append-only while the task
\* exists; the actions of a step are append-only except that clearing the
\* step after its failed execution empties them.
C29_LogsAppendOnlyUntilCleared ==
  [][RagLogsAppendOnly /\ StepLogs(ClearedOrAppended)]_vars

\* a task whose rag_actions hold a FAIL record followed by a later record
RagFailRecordKept ==
  /\ flow = "rag"
  /\ \E tk \in DOMAIN TreeTasks :
       /\ Len(TreeTasks[tk].rag_actions) >= 2
       /\ TreeTasks[tk].rag_actions[1].result = "FAIL"

\* a step that is still in the tree, with an empty log, after its execution
\* replied FAIL and the reply was recorded
C29_Witness ==
  /\ flow = "planning" /\ pc = "subtask_end" /\ subtask_error_flag
  /\ action.result = "FAIL"
  /\ Find(TreeSteps(next_task_id, next_subtask_id), next_step_id) # 0
  /\ NodeOf(TreeSteps(next_task_id, next_subtask_id), next_step_id).actions = <<>>

\* every reply recorded in the tree for the tasks of the present plan is SUCCESS
AllRepliesSucceeded ==
  \A tk \in DOMAIN TreeTasks :
    \A k \in DOMAIN TreeTasks[tk].rag_actions :
      TreeTasks[tk].rag_actions[k].result = "SUCCESS"

C31_FailedTaskPlannedAgain ==
  flow = "planning" =>
    /\ task_error_flag =>
         /\ pc \in {"task_end", "plan_task", "jgc", "jgc_abandon", "reg_subtasks"}
         /\ pc \in {"jgc", "jgc_abandon"} =>
              /\ plan_call.planner = "subtask"
              /\ plan_call.overall_id = next_task_id
              /\ plan_call.error_message = task_error_message
         /\ next_task_id \notin ToSet(completed_task_ids)
    /\ task_error_num = 0
    /\ ~original_request_error_flag

\* the same task is planned again after MaxFails failures in a row
C31_Witness ==
  /\ flow = "planning" /\ pc = "plan_task"
  /\ task_error_flag
  /\ error_id = MaxFails
  /\ task_i = 1 /\ completed_task_ids = <<>>

\* the first n ids of the ready list are in the completed-id list and
\* completed in the tree
RoundDone(ready_ids, n, completed_ids, records) ==
  \A k \in 1..n :
    /\ k \in DOMAIN ready_ids
    /\ ready_ids[k] \in ToSet(completed_ids)
    /\ Find(records, ready_ids[k]) # 0
    /\ NodeOf(records, ready_ids[k]).status = "completed"

\* no record but that of id is executing
OnlyExecuting(records, id) ==
  \A k \in DOMAIN records : records[k].status = "executing" => records[k].id = id

\* C32: in task_planning the items of a ready set are run one after the
\* other: when the for loop of a level is at an item or at its end, every
\* earlier item of the ready set is recorded as completed (a failure leaves
\* the loop and the level), so the next ready set is computed only after
\* the whole previous one completed; and while an item executes no other
\* item of its level is executing.
C32_RoundsInSequence ==
  flow = "planning" =>
    /\ pc = "task_for" =>
         RoundDone(next_task_list, task_i - 1, completed_task_ids, TreeTasks)
    /\ pc = "subtask_for" =>
         /\ ~task_error_flag
         /\ RoundDone(next_subtask_list, subtask_i - 1, completed_subtask_ids,
                      TreeSubtasks(next_task_id))
    /\ pc = "step_for" =>
         /\ ~subtask_error_flag
         /\ RoundDone(next_step_list, step_i - 1, completed_step_ids,
                      TreeSteps(next_task_id, next_subtask_id))
    /\ pc \in {"exec_step", "step_outcome"} =>
         /\ RoundDone(next_step_list, step_i - 1, completed_step_ids,
                      TreeSteps(next_task_id, next_subtask_id))
         /\ OnlyExecuting(TreeSteps(next_task_id, next_subtask_id), next_step_id)
         /\ OnlyExecuting(TreeSubtasks(next_task_id), next_subtask_id)
         /\ OnlyExecuting(TreeTasks, next_task_id)

\* a second round of steps is about to be computed: the loop over a ready
\* set of the step level has ended with its items completed
C32_Witness ==
  /\ flow = "planning" /\ pc = "step_for"
  /\ step_i > Len(next_step_list)
  /\ next_step_list # <<>>
  /\ Len(completed_step_ids) < Len(steps_graph_json)

\* the records are the nodes of the graph, in its order, each pending, with
\* the planned title and description
RegisteredPending(records, graph) ==
  /\ Len(records) = Len(graph)
  /\ \A k \in DOMAIN graph :
       /\ records[k].id = graph[k].id
       /\ records[k].status = "pending"
       /\ records[k].title = graph[k].title
       /\ records[k].description = graph[k].description

DistinctIds(records) ==
  \A j, k \in DOMAIN records : records[j].id = records[k].id => j = k

\* C34: in the persisted tree the ids of the children of one parent are
\* pairwise distinct: an update that names an id already under the parent
\* changes that node and adds none.
C34_ChildIdsDistinct ==
  flow \in {"planning", "rag"} =>
    /\ DistinctIds(TreeTasks)
    /\ \A tk \in DOMAIN TreeTasks :
         /\ DistinctIds(TreeTasks[tk].subtasks)
         /\ \A sk \in DOMAIN TreeTasks[tk].subtasks :
              DistinctIds(TreeTasks[tk].subtasks[sk].steps)

\* the second of two registered tasks has been updated by id (marked
\* executing with its title and description) and the first completed
C34_Witness ==
  /\ flow \in {"planning", "rag"}
  /\ Len(TreeTasks) = 2
  /\ TreeTasks[1].status = "completed"
  /\ TreeTasks[2].status = "executing"

\* the message of a failed execution: the context of the FAIL reply, or the
\* text of the exception
LeafMessage(error_message) ==
  \/ action.result = "FAIL" /\ error_message = action.context
                            /\ error_message = FailContext
  \/ error_message = ExcText

\* C35: the error text given to a planning call or to a repeated
\* optimization is the text of the failure that led to it: the context of
\* the FAIL reply or the text of the exception, handed unchanged from the
\* failed step or task to every level above, up to the call.
C35_ErrorMessageVerbatim ==
  /\ flow = "planning" =>
       /\ (pc = "step_outcome" /\ step_error_flag) =>
            LeafMessage(step_error_message)
       /\ subtask_error_flag => subtask_error_message = step_error_message
       /\ task_error_flag =>
            /\ task_error_message = step_error_message
            /\ task_error_message \in {FailContext, ExcText}
       /\ (pc \in {"jgc", "jgc_abandon"} /\ plan_call.planner = "subtask") =>
            /\ plan_call.error_message = task_error_message
            /\ plan_call.error_message # "" <=> task_error_flag
       /\ (pc \in {"jgc", "jgc_abandon"} /\ plan_call.planner = "step") =>
            plan_call.error_message = subtask_error_message
  /\ flow = "rag" =>
       /\ (pc = "task_outcome" /\ task_error_flag) =>
            LeafMessage(task_error_message)
       /\ pc = "optimize_again" =>
            /\ last_error = task_error_message
            /\ last_error \in {FailContext, ExcText}
       /\ (pc = "task_done" /\ task_error_flag) =>
            original_request_error_message = task_error_message
       /\ (pc \in {"jgc", "jgc_abandon"} /\ plan_original_request_num > 0) =>
            /\ plan_call.error_message = original_request_error_message
            /\ plan_call.error_message \in {FailContext, ExcText}

\* a task is planned again with the text of the exception of its second
\* failure, after a first failure that was a FAIL reply
C35_Witness ==
  /\ flow = "planning" /\ pc = "jgc"
  /\ plan_call.planner = "subtask"
  /\ plan_call.error_message = ExcText
  /\ step_error_message = ExcText
  /\ action.result = "FAIL"
  /\ error_id = 2

Statuses == {"pending", "executing", "completed"}

StatusRank(status) ==
  CASE status = "pending" -> 1
    [] status = "executing" -> 2
    [] status = "completed" -> 3
    [] OTHER -> 0

\* the status of a record that is in both lists stays or moves one stage on
StatusForward(records, records_next) ==
  \A k \in DOMAIN records :
    SameItem(records, records_next, k) =>
      /\ records_next[k].status \in Statuses
      /\ StatusRank(records_next[k].status) - StatusRank(records[k].status)
           \in {0, 1}

\* every status in the document is one of the three
StatusesValid ==
  /\ \A r \in DOMAIN context_tree : context_tree[r].status \in Statuses
  /\ \A tk \in DOMAIN TreeTasks :
       /\ TreeTasks[tk].status \in Statuses
       /\ \A sk \in DOMAIN TreeTasks[tk].subtasks :
            /\ TreeTasks[tk].subtasks[sk].status \in Statuses
            /\ \A pk \in DOMAIN TreeTasks[tk].subtasks[sk].steps :
                 TreeTasks[tk].subtasks[sk].steps[pk].status \in Statuses

\* C36: with code-level scheduling every status in the tree is pending,
\* executing or completed, and on every transition the status of a unit
\* that stays in the tree is unchanged or moves one stage forward (pending
\* to executing, executing to completed).
C36_StatusMovesForward ==
  [][(flow \in {"planning", "rag"} /\ code_scheduling) =>
       /\ StatusesValid'
       /\ RequestId \in DOMAIN context_tree =>
            StatusRank(context_tree'[RequestId].status)
              - StatusRank(context_tree[RequestId].status) \in {0, 1}
       /\ StatusForward(TreeTasks, TreeTasks')
       /\ \A tk \in DOMAIN TreeTasks :
            SameItem(TreeTasks, TreeTasks', tk) =>
              /\ StatusForward(TreeTasks[tk].subtasks, TreeTasks'[tk].subtasks)
              /\ \A sk \in DOMAIN TreeTasks[tk].subtasks :
                   SameItem(TreeTasks[tk].subtasks, TreeTasks'[tk].subtasks, sk) =>
                     StatusForward(TreeTasks[tk].subtasks[sk].steps,
                                   TreeTasks'[tk].subtasks[sk].steps)]_vars

\* a step went from pending over executing to completed and its subtask and
\* task are executing
C36_Witness ==
  /\ flow = "planning" /\ pc = "step_for"
  /\ code_scheduling
  /\ completed_step_ids # <<>>
  /\ \E pk \in DOMAIN TreeSteps(next_task_id, next_subtask_id) :
       /\ TreeSteps(next_task_id, next_subtask_id)[pk].status = "completed"
       /\ TreeSteps(next_task_id, next_subtask_id)[pk].actions # <<>>
  /\ NodeOf(TreeSubtasks(next_task_id), next_subtask_id).status = "executing"
  /\ NodeOf(TreeTasks, next_task_id).status = "executing"

\* every record of the list is completed
AllCompleted(records) ==
  \A k \in DOMAIN records : records[k].status = "completed"

\* the flow has returned: the request and every unit planned for it are
\* completed, the tasks in the tree are those of the task graph, every leaf
\* (a step in task_planning, a task in task_planning_rag) has one logged
\* execution and no failure was counted
NoFaultDone ==
  /\ pc = "done"
  /\ error_id = 0
  /\ context_tree[RequestId].status = "completed"
  /\ Len(TreeTasks) = Len(task_graph_json)
  /\ \A k \in DOMAIN TreeTasks : TreeTasks[k].id = task_graph_json[k].id
  /\ AllCompleted(TreeTasks)
  /\ flow = "rag" =>
       \A k \in DOMAIN TreeTasks : Len(TreeTasks[k].rag_actions) = 1
  /\ flow = "planning" =>
       \A tk \in DOMAIN TreeTasks :
         /\ AllCompleted(TreeTasks[tk].subtasks)
         /\ \A sk \in DOMAIN TreeTasks[tk].subtasks :
              /\ AllCompleted(TreeTasks[tk].subtasks[sk].steps)
              /\ \A k \in DOMAIN TreeTasks[tk].subtasks[sk].steps :
                   Len(TreeTasks[tk].subtasks[sk].steps[k].actions) = 1

IdsOf(records) == [k \in DOMAIN records |-> records[k].id]

\* C38: in task_planning the request is planned once: the flow comes to the
\* call of the task planner from its start only, that call is made before
\* any failure, with no error message and no task in the tree; the
\* request-level error flag is never set; once registered, the task graph
\* and the tasks of the request in the tree stay; a failed task is cleared
\* of its subtasks and the subtask planner is called for that same task.
C38_RequestPlannedOnce ==
  [][flow = "planning" =>
       /\ ~original_request_error_flag'
       /\ (pc' = "plan_request" /\ pc # "plan_request") => pc = "start"
       /\ (pc' = "jgc" /\ plan_call'.planner = "task") =>
            /\ error_id' = 0
            /\ plan_call'.error_message = ""
            /\ TreeTasks' = <<>>
       /\ pc # "reg_tasks" =>
            /\ task_graph_json' = task_graph_json
            /\ IdsOf(TreeTasks') = IdsOf(TreeTasks)
       /\ (pc = "task_end" /\ task_error_flag) =>
            /\ pc' = "plan_task"
            /\ next_task_id' = next_task_id
            /\ TreeSubtasks(next_task_id)' = <<>>
       /\ (pc = "plan_task" /\ pc' = "jgc") =>
            /\ plan_call'.planner = "subtask"
            /\ plan_call'.overall_id = next_task_id
  ]_vars

\* the second task of the request has failed MaxFails times, the first is
\* completed and both are in the tree while the subtask planner is called
C38_Witness ==
  /\ flow = "planning" /\ pc = "jgc"
  /\ plan_call.planner = "subtask"
  /\ task_error_flag
  /\ error_id = MaxFails
  /\ completed_task_ids # <<>>
  /\ Len(TreeTasks) = 2
  /\ TreeTasks[1].status = "completed"

\* the agent raised or its reply has no 'result' that is SUCCESS
NonSuccess(reply) == reply.raises \/ reply.result # "SUCCESS"

\* the step at work in SpecCapability is in the completed-id list
StepCompleted == IdPool[1] \in ToSet(completed_step_ids)

\* what the handling of an execution goes by: the step fails if an agent
\* raises, if the list of agents is empty, or if the reply of the last agent
\* lacks a key or has a result that is not SUCCESS; otherwise it is added to
\* the completed-id list
LastReplyDecides ==
  pc # "exec_step" =>
    /\ step_error_flag <=>
         \/ cap_replies = <<>>
         \/ \E k \in DOMAIN cap_replies : cap_replies[k].raises
         \/ cap_replies[Len(cap_replies)] # SuccessReply
    /\ StepCompleted <=> (pc # "step_outcome" /\ ~step_error_flag)

\* C39: once a step has been executed, if an agent of the step raised or
\* replied with anything but result SUCCESS (no 'result', FAIL, another
\* value, no JSON), the error flag of the step is set and the step is not
\* added to the completed-id list.
C39_NonSuccessIsFailure ==
  (pc # "exec_step" /\ \E k \in DOMAIN cap_replies : NonSuccess(cap_replies[k])) =>
    /\ step_error_flag
    /\ ~StepCompleted

\* the node addressed by the arguments is in the document
Addressed(doc, a) ==
  /\ a.request_id \in DOMAIN doc
  /\ a.task_id # None =>
       /\ a.task_id \in GraphKeys(doc[a.request_id].tasks)
       /\ a.subtask_id # None =>
            LET task == NodeOf(doc[a.request_id].tasks, a.task_id)
            IN /\ a.subtask_id \in GraphKeys(task.subtasks)
               /\ a.step_id # None =>
                    a.step_id \in GraphKeys(NodeOf(task.subtasks, a.subtask_id).steps)

\* the two nodes differ in the given field at most
SameBut(node, node_after, field) ==
  [node_after EXCEPT ![field] = node[field]] = node

\* the two lists hold the same records, but for the record of the given id
SameButId(records, records_after, id) ==
  /\ Len(records_after) = Len(records)
  /\ \A k \in DOMAIN records :
       records[k].id # id => records_after[k] = records[k]

\* doc_after is doc with the children of the addressed node removed and
\* nothing else changed
OnlyChildrenCleared(doc, doc_after, a) ==
  LET request == doc[a.request_id]
      request_after == doc_after[a.request_id]
      task == NodeOf(request.tasks, a.task_id)
      task_after == NodeOf(request_after.tasks, a.task_id)
      subtask == NodeOf(task.subtasks, a.subtask_id)
      subtask_after == NodeOf(task_after.subtasks, a.subtask_id)
      step == NodeOf(subtask.steps, a.step_id)
      step_after == NodeOf(subtask_after.steps, a.step_id)
  IN /\ DOMAIN doc_after = DOMAIN doc
     /\ \A r \in DOMAIN doc : r # a.request_id => doc_after[r] = doc[r]
     /\ SameBut(request, request_after, "tasks")
     /\ IF a.task_id = None THEN request_after.tasks = <<>>
        ELSE /\ SameButId(request.tasks, request_after.tasks, a.task_id)
             /\ SameBut(task, task_after, "subtasks")
             /\ IF a.subtask_id = None THEN task_after.subtasks = <<>>
                ELSE /\ SameButId(task.subtasks, task_after.subtasks, a.subtask_id)
                     /\ SameBut(subtask, subtask_after, "steps")
                     /\ IF a.step_id = None THEN subtask_after.steps = <<>>
                        ELSE /\ SameButId(subtask.steps, subtask_after.steps,
                                          a.step_id)
                             /\ SameBut(step, step_after, "actions")
                             /\ step_after.actions = <<>>

\* C40: a call of clear_context_tree_node whose request, task, subtask or
\* step is not in the document (or whose document cannot be read) raises and
\* leaves the file as it was; any other call returns and leaves the document
\* with the child collection of the addressed node empty (the actions of
\* the step, the steps of the subtask, the subtasks of the task, the tasks
\* of the request) and with the node's other fields and every other node
\* as they were.
C40_ClearFrame ==
  (flow = "files" /\ file_result.op = "clear_context_tree_node") =>
    LET before == file_result.before
        a == file_result.args
    IN IF before.kind # "json" \/ ~Addressed(before.data, a)
       THEN file_result.raised # None /\ tree_file = before
       ELSE /\ file_result.raised = None
            /\ tree_file.kind = "json"
            /\ OnlyChildrenCleared(before.data, tree_file.data, a)

\* the log of the first step has been cleared in a tree where the step, its
\* subtask and its task are executing beside pending siblings
C40_Witness ==
  /\ flow = "files" /\ file_result.op = "clear_context_tree_node"
  /\ file_result.raised = None
  /\ file_result.before = JsonFile(LoggedTree)
  /\ file_result.args.step_id = IdPool[1]
  /\ tree_file = JsonFile(ExecutingTree)

====
